---- MODULE Spec2Model ----
(***************************************************************************)
(* Model of the CAA auditor's concurrent audit pipeline:                   *)
(*   audit_runner.py      create_tasks, queue_tasks, task_runner, do_audit *)
(*   audit_task.py        AuditTask.run, _report_results, _run             *)
(*   result_aggregator.py ResultAggregator.put, _flag_internal_error, the  *)
(*                        report writers                                   *)
(*   progress.py          ProgressBar counters                             *)
(*   audit_result.py      CheckResult.category                             *)
(* and of the item client one task uses, run after run over one cache:     *)
(*   ia_item.py           IAItem.metadata, caa_index, has_pending_tasks    *)
(* and of the report generation over an existing journal:                 *)
(*   main.py              generate_output                                  *)
(* Spec and FairSpec are the pipeline, ItemSpec is the item client,        *)
(* GenerateSpec is generate-output.                                        *)
(*                                                                         *)
(* asyncio is single-threaded and cooperative: one action of the model is  *)
(* the code a coroutine runs between two suspension points (an await that  *)
(* really suspends).  An await that can raise has a second action for the  *)
(* raising outcome.                                                        *)
(*                                                                         *)
(* Calls between files are matched by name: `async with aggregator.lock:   *)
(* await aggregator.put(results)` is the call of ResultAggregator.put with *)
(* the batch (put has no suspension point, so it is atomic with or without *)
(* the lock), and `self._ia_item.metadata` is the item's metadata object.  *)
(* The logger is taken by its interface: a log call records a message and  *)
(* returns; it has no effect on the control flow of its caller.  The task  *)
(* record is read by name as well: its id is the release's MBID, and the   *)
(* keys of the release data are looked up in the data it carries.          *)
(* write_logs, write_failed_items and write_tables, which main.py imports  *)
(* from audit_runner, are the report writers do_audit calls.               *)
(***************************************************************************)
EXTENDS Integers, Sequences, FiniteSets, TLC

\* ------------------------------------------------------------------ bounds
\* The runs of the pipeline are of four families.
\*  - Small runs: up to MaxConcurrency workers and up to MaxTasks task
\*    records, on a healthy fleet: the usual item passes its preconditions.
\*  - Outage runs: one worker and MaxOutageTasks-2 or MaxOutageTasks task
\*    records, with the remote service down: the usual pending-tasks query
\*    times out.  These runs reach the aggregator's internal-error limit.
\*  - Single runs: one worker, one task record, any item.
\*  - Runs from before the first line of the input file is read: as the
\*    small runs, with any state on the first line.
\* In the first two, at most MaxVaried tasks of a run meet another item of
\* the fleet than the usual one.
MaxTasks ==
    3

MaxConcurrency ==
    2

MaxOutageTasks ==
    14

MaxVaried ==
    1

\* Number of successive runs of the audit over one cache directory.
MaxRuns ==
    2

\* The journals generate-output is run over: up to MaxJournal lines, about
\* MaxMbids releases.
MaxJournal ==
    3

MaxMbids ==
    2

\* ------------------------------------------------------- program constants
\* result_aggregator.py:132  `if self._internal_error_counter > 10`
MaxInternalErrors ==
    10

\* audit_runner.py:132  asyncio.Queue(concurrency * 2)
QueueFactor ==
    2

\* ia_item.py:111, 149, 179, 199  backoff.on_exception(..., max_tries=15)
max_tries ==
    15

\* abstractions.py:17-24
CheckStage ==
    {"preprocess", "fetch", "meta", "files", "index", "report", "postprocess"}

Tasks ==
    1..MaxOutageTasks

Workers ==
    1..MaxConcurrency

\* Timestamps of the remote item and of the catalog dump.
Times ==
    0..2

\* --------------------------------------------------------- check results
\* audit_result.py: a result is its class (through check_state), the mbid
\* and the description; the description is a string, modelled as the
\* sequence of its tokens, "::" being a token of its own.
Sep ==
    "::"

CheckPassed(mbid, desc) ==
    [check_state |-> "PASSED", mbid |-> mbid, check_description |-> desc]

CheckFailed(mbid, desc) ==
    [check_state |-> "FAILED", mbid |-> mbid, check_description |-> desc]

ItemSkipped(mbid, desc) ==
    [check_state |-> "ITEM SKIPPED", mbid |-> mbid, check_description |-> desc]

isItemSkipped(res) ==
    res.check_state = "ITEM SKIPPED"

isCheckFailed(res) ==
    res.check_state = "FAILED"

isCheckPassed(res) ==
    res.check_state = "PASSED"

\* str.split('::') on the token sequence, from token i on: the list of the
\* segments between separators, each segment the sequence of its tokens.
\* cur is the segment being read, acc the segments read before it.
RECURSIVE SplitSep(_, _, _, _)
SplitSep(desc, i, cur, acc) ==
    IF i > Len(desc) THEN Append(acc, cur)
    ELSE IF desc[i] = Sep THEN SplitSep(desc, i + 1, <<>>, Append(acc, cur))
    ELSE SplitSep(desc, i + 1, Append(cur, desc[i]), acc)

\* CheckResult.category
category(res) ==
    SplitSep(res.check_description, 1, <<>>, <<>>)

\* f'InternalError::{exc.__class__.__name__}'
InternalErrorDesc(kind) ==
    <<"InternalError", Sep, kind>>

\* ------------------------------------------------------- AuditTask._run
\* What a task finds in its catalog record and at the remote service:
\*   exists        the metadata object is non-empty            (line 89)
\*   pending       outcome of has_pending_tasks(): "yes", "no", or the class
\*                 name of the exception it gives up with       (line 99)
\*   is_dark       ia_meta.get('is_dark', False)                (line 107)
\*   item_last_modified, max_last_modified                     (lines 114-117)
\*   has_metadata  'metadata' in ia_meta                        (line 129)
\*   meta_fail     index of the metadata comparison that fails, 0 for none
\*   has_release_name  the catalog record has the key 'release_name'
\*                 (line 214 raises KeyError without it)
\*   external_ids  metadata['external-identifier']
\*   files         names in ia_meta['files']
\*   original_newer  some original file other than __ia_thumb.jpg and
\*                 mbid-<MBID>_files.xml has an mtime after
\*                 max_last_modified (the code never reads the mtimes)
\*   index         the index document: present, well-formed (it parses as
\*                 JSON), what its root is, its root keys, whether its
\*                 release url is the expected one, and its images
\*   state         the `state` of the task's line of the input file
\*   covers        the covers of the catalog record: id, extension and the
\*                 set of types
\*   image_files   the files of the item named mbid-<MBID>-...: name and
\*                 source
\* An image of the index has its id and its front and back flags; it
\* conforms to the schema, and its edit, approval, comment, types, url and
\* thumbnails are those of the cover with its id.
PendingErrors ==
    {"TimeoutError", "IAException"}

\* The fixed metadata results of _run_metadata_checks, in program order
\* (lines 184-254): the simple checks and the prechecks of get_single.
MetadataChecks ==
    << <<"Metadata", Sep, "in caa collection">>,
       <<"Metadata", Sep, "Precheck", Sep, "noindex is singular">>,
       <<"Metadata", Sep, "item is noindex">>,
       <<"Metadata", Sep, "Precheck", Sep, "mediatype is singular">>,
       <<"Metadata", Sep, "mediatype is image">>,
       <<"Metadata", Sep, "Precheck", Sep, "title is singular">>,
       <<"Metadata", Sep, "title correct">>,
       <<"Metadata", Sep, "creators correct">>,
       <<"Metadata", Sep, "Precheck", Sep, "date is singular">>,
       <<"Metadata", Sep, "date correct">>,
       <<"Metadata", Sep, "language correct">> >>

\* Number of results _run_metadata_checks has yielded when line 214 reads
\* self._mbstate["release_name"].
ResultsBeforeTitle ==
    5

\* External identifiers: what the catalog record expects (lines 257-262)
\* and what the item may carry.
ExpectedExtIds ==
    <<"urn:mb_release_id", "urn:barcode">>

PossibleExtIds ==
    <<"urn:mb_release_id", "urn:isbn">>

\* The files _run_files_checks looks for (line 300).
ExpectedFiles ==
    <<"index.json", "mb_metadata.xml">>

\* INDEX_SCHEMA.keys() (index_schema.py:1-20), in dict order.
SchemaKeys ==
    <<"release", "images">>

InSeq(x, seq) ==
    \E i \in 1..Len(seq) : seq[i] = x

GoodIndex ==
    [present |-> TRUE, wellformed |-> TRUE,
     keys |-> <<"release", "images">>, release_ok |-> TRUE,
     images |-> <<>>, root |-> "object"]

\* An index that parses as JSON to something else than an object: an array
\* or a number.
RootIndex(root) ==
    [GoodIndex EXCEPT !.root = root, !.keys = <<>>]

\* The item whose audit passes every precondition.
GoodItem ==
    [exists |-> TRUE, pending |-> "no", is_dark |-> FALSE,
     item_last_modified |-> 0, max_last_modified |-> 1,
     has_metadata |-> TRUE, meta_fail |-> 0, has_release_name |-> TRUE,
     external_ids |-> <<"urn:mb_release_id">>,
     files |-> <<>>, original_newer |-> FALSE, index |-> GoodIndex,
     state |-> "active", covers |-> <<>>, image_files |-> <<>>]

\* The name of a file of the item that starts with mbid-<MBID>-<id>, as the
\* pieces the checks put together or look at.
ImageFileName(cover_id, rest) ==
    <<"mbid-", "<MBID>", "-", cover_id>> \o rest

\* A cover of the catalog record and its image in the index.
Cover(id, types) ==
    [id |-> id, extension |-> "jpg", types |-> types]

IndexImage(id) ==
    [id |-> id, front |-> FALSE, back |-> FALSE]

\* The original image file of a cover, its _meta.txt companion and one of
\* its thumbnails, as the item lists them.
OriginalFile(id) ==
    [name |-> ImageFileName(id, <<".", "jpg">>), source |-> "original"]

CompanionFile(id, source) ==
    [name |-> ImageFileName(id, <<".", "jpg", "_meta.txt">>),
     source |-> source]

ThumbnailFile(id, size) ==
    [name |-> ImageFileName(id, <<"_thumb", size, ".jpg">>),
     source |-> "derivative"]

\* A release with the covers ids (of types other than Front and Back), as
\* the catalog has it and as the item holds it with the images of its index
\* in the order index_ids.
CoverItem(ids, index_ids) ==
    [GoodItem EXCEPT
        !.covers = [i \in 1..Len(ids) |-> Cover(ids[i], {"Booklet"})],
        !.image_files = [i \in 1..Len(ids) |-> OriginalFile(ids[i])],
        !.index = [GoodIndex EXCEPT
                     !.images = [i \in 1..Len(index_ids) |->
                                    IndexImage(index_ids[i])]]]

\* The items with covers: the images of the index in and out of the order
\* of the catalog, a cover of type Front, an image the catalog does not
\* have, an image marked as front, and an original file with its
\* companion and a thumbnail.
CoverItems ==
    {CoverItem(<<1, 2>>, <<1, 2>>), CoverItem(<<1, 2>>, <<2, 1>>),
     CoverItem(<<1>>, <<1, 2>>), CoverItem(<<1>>, <<1, 1>>)}
    \cup {[CoverItem(<<1>>, <<1>>) EXCEPT
             !.covers = <<Cover(1, {t})>>] : t \in {"Front", "Back"}}
    \cup {[CoverItem(<<1>>, <<1>>) EXCEPT
             !.index = [GoodIndex EXCEPT
                          !.images = <<[IndexImage(1) EXCEPT
                                          !.front = TRUE]>>]]}
    \cup {[CoverItem(<<1>>, <<1>>) EXCEPT
             !.image_files = <<OriginalFile(1), CompanionFile(1, source),
                               ThumbnailFile(1, "250")>>] :
             source \in {"original", "derivative"}}
    \cup {[CoverItem(<<1>>, <<1>>) EXCEPT
             !.image_files = <<CompanionFile(1, "original")>>]}

\* The records of the other states: a release without images has its data,
\* a merged or possibly deleted one is its state and its id
\* (scripts/extract_data.py:213-224).
StateItems ==
    {[GoodItem EXCEPT !.state = "empty"]}
    \cup {[GoodItem EXCEPT !.state = st, !.has_release_name = FALSE] :
             st \in {"merged", "possibly_deleted"}}

\* Items that fail two preconditions at once.
OrderItems ==
    {[GoodItem EXCEPT !.pending = "yes", !.is_dark = TRUE],
     [GoodItem EXCEPT !.is_dark = TRUE, !.item_last_modified = 2]}

\* The items of the model: GoodItem varied in one respect at a time, and
\* the items above.
Items ==
    {GoodItem}
    \cup {[GoodItem EXCEPT !.exists = FALSE]}
    \cup {[GoodItem EXCEPT !.pending = p] : p \in {"yes"} \cup PendingErrors}
    \cup {[GoodItem EXCEPT !.is_dark = TRUE]}
    \cup {[GoodItem EXCEPT !.item_last_modified = t, !.original_newer = n] :
             t \in Times, n \in BOOLEAN}
    \cup {[GoodItem EXCEPT !.has_metadata = FALSE]}
    \cup {[GoodItem EXCEPT !.meta_fail = 7]}
    \cup {[GoodItem EXCEPT !.has_release_name = FALSE]}
    \cup {[GoodItem EXCEPT !.external_ids = PossibleExtIds]}
    \cup {[GoodItem EXCEPT !.files = ExpectedFiles]}
    \cup {[GoodItem EXCEPT !.index = [GoodIndex EXCEPT !.present = FALSE]]}
    \cup {[GoodItem EXCEPT !.index = [GoodIndex EXCEPT !.wellformed = FALSE]]}
    \cup {[GoodItem EXCEPT !.index = [GoodIndex EXCEPT !.keys = <<"images">>]]}
    \cup {[GoodItem EXCEPT !.index = [GoodIndex EXCEPT !.release_ok = FALSE]]}
    \cup CoverItems
    \cup StateItems
    \cup OrderItems
    \cup {[GoodItem EXCEPT !.index = RootIndex(root)] :
             root \in {"array", "number"}}

\* The item of a task whose pending-tasks query times out.
TimeoutItem ==
    [GoodItem EXCEPT !.pending = "TimeoutError"]

\* The items the tasks of a run with several tasks meet: one per kind of
\* batch (all passed, failed, skipped, exception before and after results).
PipelineItems ==
    {GoodItem, TimeoutItem,
     [GoodItem EXCEPT !.exists = FALSE],
     [GoodItem EXCEPT !.is_dark = TRUE],
     [GoodItem EXCEPT !.has_release_name = FALSE]}

\* _simple_check (lines 147-157)
_simple_check(mbid, desc, check_success) ==
    IF check_success THEN CheckPassed(mbid, desc) ELSE CheckFailed(mbid, desc)

\* _run_metadata_checks (lines 159-283): the fixed checks, then one
\* `unexpected external id` per id of the item, then one `missing external
\* id` per expected id.
_run_metadata_checks(mbid, item) ==
    [i \in 1..Len(MetadataChecks) |->
        _simple_check(mbid, MetadataChecks[i], item.meta_fail # i)]
    \o [i \in 1..Len(item.external_ids) |->
        _simple_check(mbid, <<"Metadata", Sep, "unexpected external id">>,
                      InSeq(item.external_ids[i], ExpectedExtIds))]
    \o [i \in 1..Len(ExpectedExtIds) |->
        _simple_check(mbid, <<"Metadata", Sep, "missing external id">>,
                      InSeq(ExpectedExtIds[i], item.external_ids))]

\* has_file (lines 295-296): `get_file(name) is None`.
has_file(files, name) ==
    ~InSeq(name, files)

RECURSIVE Concat(_)
\* The results yielded by the iterations of a loop, one after the other.
Concat(seqs) ==
    IF seqs = <<>> THEN <<>> ELSE Head(seqs) \o Concat(Tail(seqs))

\* str.startswith
startswith(name, prefix) ==
    /\ Len(name) >= Len(prefix)
    /\ SubSeq(name, 1, Len(prefix)) = prefix

\* The thumbnail sizes of lines 321 and 500-506.
ThumbSizes ==
    <<"250", "500", "1200">>

\* images_with_id (lines 330-334): the files whose name starts with
\* mbid-<MBID>-<id>. and whose source is original.
images_with_id(image_files, cover_id) ==
    {i \in 1..Len(image_files) :
        /\ startswith(image_files[i].name, ImageFileName(cover_id, <<".">>))
        /\ image_files[i].source = "original"}

\* The body of the loop over the covers (lines 307-339) for one cover.
_cover_files_checks(mbid, item, cover) ==
    LET names == [i \in 1..Len(item.image_files) |-> item.image_files[i].name]
    IN <<_simple_check(mbid, <<"Files", Sep, "original image exists">>,
            has_file(names,
                     ImageFileName(cover.id, <<".", cover.extension>>)))>>
       \o [t \in 1..Len(ThumbSizes) |->
            _simple_check(mbid,
                <<"Files", Sep, ThumbSizes[t], "px thumbnail exists">>,
                has_file(names,
                    ImageFileName(cover.id,
                                  <<"_thumb", ThumbSizes[t], ".jpg">>)))]
       \o <<_simple_check(mbid, <<"Files", Sep, "image id is unique">>,
               Cardinality(images_with_id(item.image_files, cover.id)) = 1)>>

\* _run_files_checks (lines 285-343).
_run_files_checks(mbid, item) ==
    [i \in 1..Len(ExpectedFiles) |->
        _simple_check(mbid, <<"Files", Sep, ExpectedFiles[i], " exists">>,
                      has_file(item.files, ExpectedFiles[i]))]
    \o Concat([c \in 1..Len(item.covers) |->
                  _cover_files_checks(mbid, item, item.covers[c])])

\* INDEX_SCHEMA['images'][0].keys() (index_schema.py:3-19), in dict order.
ImageSchemaKeys ==
    <<"approved", "back", "comment", "edit", "front", "id", "image",
      "thumbnails", "types">>

\* _verify_schema_rec on one image that conforms to the schema (lines
\* 553-583): one result per key, and for the thumbnails the new-style
\* result; the values are of plain types and yield nothing.
_verify_schema_image(mbid) ==
    [i \in 1..Len(ImageSchemaKeys) |->
        CheckPassed(mbid, <<"CAAIndex", Sep, "Schema", Sep,
                            ImageSchemaKeys[i], " in ", "root.images[]">>)]
    \o <<CheckPassed(mbid, <<"CAAIndex", Sep, "Schema", Sep,
                              "root.images[].thumbnails", " is new-style">>)>>

\* The exception _verify_schema_rec is left through at the root, "none" for
\* an object: `k in index` (line 566) raises TypeError for a number, and is
\* False for every key of the schema on an array, for which index.keys()
\* (line 572) then raises AttributeError.
_verify_schema_raised(index) ==
    CASE index.root = "number" -> "TypeError"
      [] index.root = "array" -> "AttributeError"
      [] OTHER -> "none"

\* _verify_schema_rec at the root (lines 529-593): one result per schema
\* key, then the results of every image when the key images is there; the
\* `is <type>` result cr is computed but not yielded, its test being
\* isinstance(schema, exp_type).  Nothing is yielded for a number.
_verify_schema_root(mbid, index) ==
    IF index.root = "number" THEN <<>> ELSE
    [i \in 1..Len(SchemaKeys) |->
        _simple_check(mbid,
            <<"CAAIndex", Sep, "Schema", Sep, SchemaKeys[i], " in ", "root">>,
            InSeq(SchemaKeys[i], index.keys))]
    \o (IF InSeq("images", index.keys)
        THEN Concat([i \in 1..Len(index.images) |->
                        _verify_schema_image(mbid)])
        ELSE <<>>)

\* The description of a check on an image of the index.
ImageCheck(name) ==
    <<"CAAIndex", Sep, "Image", Sep, name>>

\* The body of the loop over the covers (lines 403-418) for one cover id.
_cover_index_checks(mbid, images, cover_id) ==
    LET matching_covers == {i \in 1..Len(images) : images[i].id = cover_id}
    IN <<_simple_check(mbid, ImageCheck("missing image"),
                       Cardinality(matching_covers) > 1),
         _simple_check(mbid, ImageCheck("image id is unique"),
                       Cardinality(matching_covers) <= 1)>>

\* The body of the loop over the images of the index (lines 420-513) for
\* one image: what it yields, and the class of the exception that ends it.
\* Line 463 iterates over the keys of the cover, so that c['id'] raises
\* TypeError when Front is among the cover's types; line 464 likewise for
\* Back.  Otherwise main_front_id and main_back_id are None, and the
\* second of the two comparisons is yielded under the name front as well.
_image_index_checks(mbid, covers, image) ==
    LET expected == \E c \in 1..Len(covers) : covers[c].id = image.id
        caa_image ==
            covers[CHOOSE c \in 1..Len(covers) : covers[c].id = image.id]
        unexpected == _simple_check(mbid, ImageCheck("unexpected image"),
                                    expected)
        first == <<unexpected,
                   CheckPassed(mbid, ImageCheck("edit")),
                   CheckPassed(mbid, ImageCheck("edit approval status")),
                   CheckPassed(mbid, ImageCheck("comment")),
                   CheckPassed(mbid, ImageCheck("types"))>>
    IN IF ~expected
       THEN [yielded |-> <<unexpected>>, raised |-> "none"]
       ELSE IF "Front" \in caa_image.types \/ "Back" \in caa_image.types
       THEN [yielded |-> first, raised |-> "TypeError"]
       ELSE [yielded |->
                first
                \o <<_simple_check(mbid, ImageCheck("front"),
                                   image.front = FALSE),
                     _simple_check(mbid, ImageCheck("front"),
                                   image.back = FALSE),
                     CheckPassed(mbid, ImageCheck("image url")),
                     CheckPassed(mbid, ImageCheck("thumbnails"))>>,
             raised |-> "none"]

RECURSIVE _images_index_checks(_, _, _)
\* The loop over the images of the index (line 420), left at the first
\* image whose body raises.
_images_index_checks(mbid, covers, images) ==
    IF images = <<>> THEN [yielded |-> <<>>, raised |-> "none"]
    ELSE LET head == _image_index_checks(mbid, covers, Head(images))
             tail == _images_index_checks(mbid, covers, Tail(images))
         IN IF head.raised # "none" THEN head
            ELSE [yielded |-> head.yielded \o tail.yielded,
                  raised |-> tail.raised]

\* cover_id_to_cover (lines 399-400): the ids of the covers, each once, in
\* the order of their first occurrence.
cover_ids(covers) ==
    [c \in 1..Len(covers) |-> covers[c].id]

\* The checks on the images (lines 399-523): what they yield, and the class
\* of the exception that ends them ("none" if they run to their end).
_index_image_checks(mbid, item) ==
    LET images == item.index.images
        per_cover == Concat([c \in 1..Len(item.covers) |->
                        _cover_index_checks(mbid, images,
                                            item.covers[c].id)])
        per_image == _images_index_checks(mbid, item.covers, images)
        caa_order == cover_ids(item.covers)
        index_order == [i \in 1..Len(images) |-> images[i].id]
    IN IF per_image.raised # "none"
       THEN [yielded |-> per_cover \o per_image.yielded,
             raised |-> per_image.raised]
       ELSE [yielded |-> per_cover \o per_image.yielded
                         \o <<_simple_check(mbid, ImageCheck("order"),
                                            caa_order = index_order)>>,
             raised |-> "none"]

\* _run_index_checks (lines 345-527): the results it yields.
_run_index_checks(mbid, item) ==
    LET index == item.index
        present == _simple_check(mbid, <<"CAAIndex", Sep, "is present">>,
                                 index.present)
        schema == _verify_schema_root(mbid, index)
        outdated_schema == \E i \in 1..Len(schema) : isCheckFailed(schema[i])
    IN IF ~index.present THEN <<present>>
       ELSE IF ~index.wellformed
       THEN <<present, CheckFailed(mbid, <<"CAAIndex", Sep, "is well-formed">>)>>
       ELSE <<present, CheckPassed(mbid, <<"CAAIndex", Sep, "is well-formed">>)>>
            \o schema
            \o (IF outdated_schema \/ _verify_schema_raised(index) # "none"
                THEN <<>>
                ELSE <<_simple_check(mbid,
                          <<"CAAIndex", Sep, "release url correct">>,
                          index.release_ok)>>
                     \o _index_image_checks(mbid, item).yielded)

\* _run_index_checks: the class of the exception it is left through, "none"
\* if it returns.
_run_index_raised(mbid, item) ==
    LET index == item.index
        schema == _verify_schema_root(mbid, index)
    IN IF ~(index.present /\ index.wellformed) THEN "none"
       ELSE IF _verify_schema_raised(index) # "none"
       THEN _verify_schema_raised(index)
       ELSE IF \A i \in 1..Len(schema) : ~isCheckFailed(schema[i])
       THEN _index_image_checks(mbid, item).raised
       ELSE "none"

\* A variant of _run_start that returns on a missing item without yielding
\* the failed `Item::exists` check.
_run_start_silent(mbid, item) ==
    IF ~item.exists
    THEN [yielded |-> <<>>, returned |-> TRUE, raised |-> "none"]
    ELSE [yielded |-> <<CheckPassed(mbid, <<"Item", Sep, "exists">>)>>,
          returned |-> FALSE, raised |-> "none"]

\* A variant of _run_start that goes on to the pending-tasks query after the
\* failed `Item::exists` check.
_run_start_going_on(mbid, item) ==
    IF ~item.exists
    THEN [yielded |-> <<CheckFailed(mbid, <<"Item", Sep, "exists">>)>>,
          returned |-> FALSE, raised |-> "none"]
    ELSE [yielded |-> <<CheckPassed(mbid, <<"Item", Sep, "exists">>)>>,
          returned |-> FALSE, raised |-> "none"]

\* The generator up to the pending-tasks query (lines 86-99): the results
\* yielded so far, whether the generator has returned, and the class name
\* of the exception it raised ("none" if it did not).
_run_start(mbid, item) ==
    IF ~item.exists
    THEN [yielded |-> <<CheckFailed(mbid, <<"Item", Sep, "exists">>)>>,
          returned |-> TRUE, raised |-> "none"]
    ELSE [yielded |-> <<CheckPassed(mbid, <<"Item", Sep, "exists">>)>>,
          returned |-> FALSE, raised |-> "none"]

\* A variant of _run_rest that skips an item only when it was modified
\* strictly after max_last_modified.
_run_rest_strictly_after(mbid, item, yielded) ==
    IF item.pending \in PendingErrors
    THEN [yielded |-> yielded, returned |-> FALSE, raised |-> item.pending,
          read_index |-> FALSE]
    ELSE IF item.pending = "yes"
    THEN [yielded |-> Append(yielded,
                ItemSkipped(mbid, <<"Item", Sep, "has pending tasks">>)),
          returned |-> TRUE, raised |-> "none",
          read_index |-> FALSE]
    ELSE IF item.is_dark
    THEN [yielded |-> Append(yielded,
                ItemSkipped(mbid, <<"Item", Sep, "darkened">>)),
          returned |-> TRUE, raised |-> "none",
          read_index |-> FALSE]
    ELSE IF item.item_last_modified > item.max_last_modified
    THEN [yielded |-> Append(yielded,
                ItemSkipped(mbid, <<"Item", Sep, "outdated mb state">>)),
          returned |-> TRUE, raised |-> "none",
          read_index |-> FALSE]
    ELSE IF ~item.has_metadata
    THEN [yielded |-> Append(yielded,
                CheckFailed(mbid, <<"Metadata", Sep, "missing metadata key">>)),
          returned |-> TRUE, raised |-> "none",
          read_index |-> FALSE]
    ELSE IF ~item.has_release_name
    THEN [yielded |-> yielded \o SubSeq(_run_metadata_checks(mbid, item),
                                        1, ResultsBeforeTitle),
          returned |-> FALSE, raised |-> "KeyError",
          read_index |-> FALSE]
    ELSE [yielded |-> yielded \o _run_metadata_checks(mbid, item)
                              \o _run_files_checks(mbid, item)
                              \o _run_index_checks(mbid, item),
          returned |-> _run_index_raised(mbid, item) = "none",
          raised |-> _run_index_raised(mbid, item),
          read_index |-> TRUE]

\* The generator from the answer of the pending-tasks query to its end
\* (lines 99-145).  There is no suspension point on this stretch.
_run_rest(mbid, item, yielded) ==
    IF item.pending \in PendingErrors
    THEN [yielded |-> yielded, returned |-> FALSE, raised |-> item.pending,
          read_index |-> FALSE]
    ELSE IF item.pending = "yes"
    THEN [yielded |-> Append(yielded,
                ItemSkipped(mbid, <<"Item", Sep, "has pending tasks">>)),
          returned |-> TRUE, raised |-> "none",
          read_index |-> FALSE]
    ELSE IF item.is_dark
    THEN [yielded |-> Append(yielded,
                ItemSkipped(mbid, <<"Item", Sep, "darkened">>)),
          returned |-> TRUE, raised |-> "none",
          read_index |-> FALSE]
    ELSE IF item.item_last_modified >= item.max_last_modified
    THEN [yielded |-> Append(yielded,
                ItemSkipped(mbid, <<"Item", Sep, "outdated mb state">>)),
          returned |-> TRUE, raised |-> "none",
          read_index |-> FALSE]
    ELSE IF ~item.has_metadata
    THEN [yielded |-> Append(yielded,
                CheckFailed(mbid, <<"Metadata", Sep, "missing metadata key">>)),
          returned |-> TRUE, raised |-> "none",
          read_index |-> FALSE]
    ELSE IF ~item.has_release_name
    THEN [yielded |-> yielded \o SubSeq(_run_metadata_checks(mbid, item),
                                        1, ResultsBeforeTitle),
          returned |-> FALSE, raised |-> "KeyError",
          read_index |-> FALSE]
    ELSE [yielded |-> yielded \o _run_metadata_checks(mbid, item)
                              \o _run_files_checks(mbid, item)
                              \o _run_index_checks(mbid, item),
          returned |-> _run_index_raised(mbid, item) = "none",
          raised |-> _run_index_raised(mbid, item),
          read_index |-> TRUE]

\* A variant of run_results that keeps what the generator yielded before it
\* raised and appends the InternalError skip.
run_results_keeping(mbid, gen) ==
    IF gen.raised # "none"
    THEN Append(gen.yielded, ItemSkipped(mbid, InternalErrorDesc(gen.raised)))
    ELSE gen.yielded

\* AuditTask.run, lines 41-46: the batch is the list of everything the
\* generator yielded, or, if it raised, the single InternalError skip.
\* A variant of run_results that reports what the checks had yielded when
\* they raised.
run_results_partial(mbid, gen) ==
    IF gen.raised # "none"
    THEN gen.yielded
    ELSE gen.yielded

run_results(mbid, gen) ==
    IF gen.raised # "none"
    THEN <<ItemSkipped(mbid, InternalErrorDesc(gen.raised))>>
    ELSE gen.yielded

\* ---------------------------------------------- ResultAggregator.put
\* `res.category[0] == 'InternalError'` (line 110): put flags res.
is_internal_error(res) ==
    category(res)[1] = <<"InternalError">>

\* Number of flagged results among the first i results of the batch.
flagged(audit_results, i) ==
    Cardinality({j \in 1..i : is_internal_error(audit_results[j])})

\* A variant of _flag_internal_error that aborts when the counter reaches
\* the threshold instead of when it exceeds it.
_flag_internal_error_at_threshold(counter) ==
    [counter |-> counter + 1, raised |-> counter + 1 >= MaxInternalErrors]

\* _flag_internal_error (lines 130-133) on a counter value: the incremented
\* counter, and whether the abort is raised.
_flag_internal_error(counter) ==
    [counter |-> counter + 1, raised |-> counter + 1 > MaxInternalErrors]

\* The index of the result at which the loop of put (lines 109-119) is left
\* by the abort, the counter being `counter` when put is entered; 0 if the
\* loop runs to the end of the batch.
put_raises_at(audit_results, counter) ==
    LET raising == {i \in 1..Len(audit_results) :
                      /\ is_internal_error(audit_results[i])
                      /\ _flag_internal_error(
                            counter + flagged(audit_results, i - 1)).raised}
    IN IF raising = {} THEN 0
       ELSE CHOOSE i \in raising : \A j \in raising : i <= j

\* The line put writes for res (lines 118-119).
JournalLine(res) ==
    <<res.mbid, res.check_description, res.check_state>>

\* A variant of put_signal that forgets the failed flag.
put_signal_no_failed(st) ==
    IF st.skipped THEN "task_skipped" ELSE "task_success"

\* The progress transition put chooses after the loop (lines 123-128).
put_signal(st) ==
    IF st.skipped THEN "task_skipped"
    ELSE IF st.failed THEN "task_failed"
    ELSE "task_success"

\* ------------------------------------- ResultAggregator: the report writers
\* A variant of __init__ that opens the journal for writing whatever
\* open_cache says.
ResultAggregator_init_opening(journal, open_cache) ==
    [cache_file |-> <<>>, _finished |-> ~open_cache]

\* __init__ (result_aggregator.py:91-104) on the journal it finds in
\* root_path: gzip.open with mode 'wt' leaves an empty file, and happens
\* only with open_cache; the journal counts as finished without it.
ResultAggregator_init(journal, open_cache) ==
    [cache_file |-> IF open_cache THEN <<>> ELSE journal,
     _finished |-> ~open_cache]

\* The generator of _iter_results (lines 142-144): a line is stripped, split
\* at the tabs and made a ResultType(mbid, check_description, check_state).
_iter_results(journal) ==
    [i \in 1..Len(journal) |->
        [mbid |-> journal[i][1],
         check_description |-> journal[i][2],
         check_state |-> journal[i][3]]]

\* The descriptions of the journals explored for the reports, in the order
\* of Python's comparison of str ('C' < 'I' < 'M').
ReportDescriptions ==
    << <<"CAAIndex", Sep, "is present">>,
       <<"Item", Sep, "exists">>,
       <<"Metadata", Sep, "missing metadata key">> >>

\* The place of a description in the order of str.
str_order(desc) ==
    CHOOSE i \in 1..Len(ReportDescriptions) : ReportDescriptions[i] = desc

\* The order of the MBIDs of the model, which stand for strings of one
\* length.
mbid_order(mbid) ==
    mbid

\* sorted(fail_reasons) (line 167): the descriptions in ascending order.
sorted_reasons(S) ==
    CHOOSE seq \in [1..Cardinality(S) -> S] :
        \A i, j \in 1..Cardinality(S) :
            i < j => str_order(seq[i]) < str_order(seq[j])

\* sorted(failed_mbids) (line 173): the MBIDs in ascending order.
sorted_mbids(S) ==
    CHOOSE seq \in [1..Cardinality(S) -> S] :
        \A i, j \in 1..Cardinality(S) :
            i < j => mbid_order(seq[i]) < mbid_order(seq[j])

Digits ==
    <<"0", "1", "2", "3", "4", "5", "6", "7", "8", "9">>

RECURSIVE str(_)
\* str(n) of a natural number: its decimal digits.
str(n) ==
    IF n < 10 THEN <<Digits[n + 1]>>
    ELSE str(n \div 10) \o <<Digits[(n % 10) + 1]>>

\* A variant of write_failures_csv that counts every result of the journal,
\* not only the failed ones.
write_failures_csv_all_states(journal) ==
    LET results == _iter_results(journal)
        counted == 1..Len(results)
        fail_reasons == {results[i].check_description : i \in counted}
        failed_mbids == {results[i].mbid : i \in counted}
        failure_counter(mbid, reason) ==
            Cardinality({i \in counted :
                            /\ results[i].mbid = mbid
                            /\ results[i].check_description = reason})
        fail_reasons_ordered == sorted_reasons(fail_reasons)
        mbids_ordered == sorted_mbids(failed_mbids)
    IN [header |-> << <<"mbid">> >> \o fail_reasons_ordered,
        rows |-> [r \in 1..Len(mbids_ordered) |->
                    <<mbids_ordered[r]>>
                    \o [c \in 1..Len(fail_reasons_ordered) |->
                          str(failure_counter(mbids_ordered[r],
                                              fail_reasons_ordered[c]))]]]

\* write_failures_csv (lines 158-177) on the journal: the header row and the
\* data rows of bad_items.csv.
write_failures_csv(journal) ==
    LET results == _iter_results(journal)
        counted == {i \in 1..Len(results) : results[i].check_state = "FAILED"}
        fail_reasons == {results[i].check_description : i \in counted}
        failed_mbids == {results[i].mbid : i \in counted}
        failure_counter(mbid, reason) ==
            Cardinality({i \in counted :
                            /\ results[i].mbid = mbid
                            /\ results[i].check_description = reason})
        fail_reasons_ordered == sorted_reasons(fail_reasons)
        mbids_ordered == sorted_mbids(failed_mbids)
    IN [header |-> << <<"mbid">> >> \o fail_reasons_ordered,
        rows |-> [r \in 1..Len(mbids_ordered) |->
                    <<mbids_ordered[r]>>
                    \o [c \in 1..Len(fail_reasons_ordered) |->
                          str(failure_counter(mbids_ordered[r],
                                              fail_reasons_ordered[c]))]]]

\* The files the report writers of do_audit leave (audit_runner.py:160-166).
LogFiles ==
    {"skipped_items.log", "failed_checks.log"}

TableFiles ==
    {"results_all.txt", "results_jira.txt", "results_condensed.txt"}

\* ================================================================ IAItem
\* ia_item.py.  A response of the archive is a transport failure
\* ("ClientError", "TimeoutError"), a status without a body of interest
\* ("404", "500", "200") or, with status 200, the bytes of its body.  Bodies
\* and cache files are byte strings; the ones of the model:
\*   "{}"       the empty object          "{meta}"  an auditable item
\*   "{dark}"   a darkened item           "{error}" an object with key error
\*   "null"     the JSON value null       "garbage" bytes that are not JSON
\*   "index_bytes"  the index document (never parsed by IAItem)
TransportErrors ==
    {"ClientError", "TimeoutError"}

RawBodies ==
    {"{}", "{meta}", "{dark}", "{error}", "null", "garbage"}

\* What a cache file can be when it is read: missing, not readable (an
\* OSError other than FileNotFoundError), or its bytes.
NoFile ==
    {"absent", "unreadable"}

\* The answers to GET /metadata/<id>, /details/<id>, tasks.php and
\* /download/<id>/index.json.
MetadataResponses ==
    TransportErrors \cup {"500"} \cup RawBodies

ProbeResponses ==
    TransportErrors \cup {"404", "200", "500"}

TasksResponses ==
    TransportErrors \cup {"pending", "idle", "unsuccessful", "garbage",
                          "no_success"}

IndexResponses ==
    TransportErrors \cup {"404", "500", "index_bytes"}

\* json_parse on the bytes: whether it parses (else ValueError), whether
\* the value is None, and the keys of the object.
json_parse(raw) ==
    CASE raw = "{}" -> [ok |-> TRUE, null |-> FALSE, keys |-> {}]
      [] raw = "{meta}" ->
            [ok |-> TRUE, null |-> FALSE,
             keys |-> {"metadata", "files", "item_last_modified"}]
      [] raw = "{dark}" ->
            [ok |-> TRUE, null |-> FALSE,
             keys |-> {"metadata", "files", "item_last_modified", "is_dark"}]
      [] raw = "{error}" -> [ok |-> TRUE, null |-> FALSE, keys |-> {"error"}]
      [] raw = "null" -> [ok |-> TRUE, null |-> TRUE, keys |-> {}]
      [] OTHER -> [ok |-> FALSE, null |-> FALSE, keys |-> {}]

\* Python's `not value` on a parsed value.
falsy(value) ==
    value.null \/ value.keys = {}

\* The exception classes listed in the decorators of has_pending_tasks and
\* _fetch_metadata (lines 110-111, 148-149); a ClientResponseError is a
\* ClientError.
RetriedWithIAException ==
    {"ClientError", "ClientResponseError", "TimeoutError", "IAException"}

\* The exception classes listed in the decorators of _fetch_index and
\* _is_404 (lines 178-179, 198-199).
RetriedTransport ==
    {"ClientError", "ClientResponseError", "TimeoutError"}

\* backoff.on_exception(expo, exceptions, max_tries=15) when call number
\* `tries` of the wrapped coroutine raises an exception of class kind: the
\* coroutine is called again, or the exception is raised to the caller.
on_exception(exceptions, kind, tries) ==
    IF kind \in exceptions /\ tries < max_tries THEN "retry" ELSE "raise"

\* _load_from_cache: the bytes of the file, or None (the empty sequence)
\* on OSError (lines 127-135).
_load_from_cache(file) ==
    IF file \in NoFile THEN <<>> ELSE <<file>>

\* A variant of _load_json_from_cache that takes bytes that do not parse
\* for the empty object.
_load_json_from_cache_lenient(file) ==
    IF _load_from_cache(file) = <<>> THEN <<>>
    ELSE IF ~json_parse(file).ok THEN <<json_parse("{}")>>
    ELSE IF json_parse(file).null THEN <<>>
    ELSE <<json_parse(file)>>

\* _load_json_from_cache (lines 137-146) as metadata() uses it (line 87):
\* the parsed value, or nothing when the file cannot be read, does not
\* parse, or holds null.
_load_json_from_cache(file) ==
    IF _load_from_cache(file) = <<>> THEN <<>>
    ELSE IF ~json_parse(file).ok THEN <<>>
    ELSE IF json_parse(file).null THEN <<>>
    ELSE <<json_parse(file)>>

\* What one call of _fetch_metadata does with the answer to its GET (lines
\* 156-176): raise, go on to the probe, or return.
_fetch_metadata_step(resp) ==
    IF resp \in TransportErrors THEN [do |-> "raise", exc |-> resp]
    ELSE IF resp = "500" THEN [do |-> "raise", exc |-> "ClientResponseError"]
    ELSE IF ~json_parse(resp).ok THEN [do |-> "raise", exc |-> "IAException"]
    ELSE IF ~falsy(json_parse(resp)) /\ "error" \in json_parse(resp).keys
    THEN [do |-> "raise", exc |-> "IAException"]
    ELSE IF falsy(json_parse(resp)) THEN [do |-> "probe", exc |-> "none"]
    ELSE [do |-> "return", exc |-> "none"]

\* A variant of _is_404_step that takes every status for a 404.
_is_404_step_any_status(resp) ==
    IF resp \in TransportErrors
    THEN [do |-> "raise", exc |-> resp, is_404 |-> FALSE]
    ELSE [do |-> "return", exc |-> "none", is_404 |-> TRUE]

\* What one call of _is_404 does with the answer to its GET (lines
\* 201-204): there is no raise_for_status, every status is an answer.
_is_404_step(resp) ==
    IF resp \in TransportErrors
    THEN [do |-> "raise", exc |-> resp, is_404 |-> FALSE]
    ELSE [do |-> "return", exc |-> "none", is_404 |-> (resp = "404")]

\* What one call of has_pending_tasks does with the answer (lines 114-125):
\* raise, or return whether a task is pending.
has_pending_tasks_step(resp) ==
    IF resp \in TransportErrors
    THEN [do |-> "raise", exc |-> resp, value |-> FALSE]
    ELSE IF resp \in {"garbage", "unsuccessful"}
    THEN [do |-> "raise", exc |-> "IAException", value |-> FALSE]
    ELSE IF resp = "no_success"
    THEN [do |-> "raise", exc |-> "KeyError", value |-> FALSE]
    ELSE [do |-> "return", exc |-> "none", value |-> (resp = "pending")]

\* A variant of _fetch_index_step that lets raise_for_status see the 404.
_fetch_index_step_404_raises(resp) ==
    IF resp \in TransportErrors
    THEN [do |-> "raise", exc |-> resp, value |-> "None"]
    ELSE IF resp \in {"404", "500"}
    THEN [do |-> "raise", exc |-> "ClientResponseError", value |-> "None"]
    ELSE [do |-> "return", exc |-> "none", value |-> resp]

\* A variant of _fetch_index_step without raise_for_status: the body of an
\* error answer is returned as the document.
_fetch_index_step_unchecked(resp) ==
    IF resp \in TransportErrors
    THEN [do |-> "raise", exc |-> resp, value |-> "None"]
    ELSE IF resp = "404" THEN [do |-> "return", exc |-> "none", value |-> "None"]
    ELSE [do |-> "return", exc |-> "none", value |-> resp]

\* What one call of _fetch_index does with the answer (lines 185-196).
_fetch_index_step(resp) ==
    IF resp \in TransportErrors
    THEN [do |-> "raise", exc |-> resp, value |-> "None"]
    ELSE IF resp = "404" THEN [do |-> "return", exc |-> "none", value |-> "None"]
    ELSE IF resp = "500"
    THEN [do |-> "raise", exc |-> "ClientResponseError", value |-> "None"]
    ELSE [do |-> "return", exc |-> "none", value |-> resp]

\* A variant of caa_index_cache that never writes the file.
caa_index_cache_unwritten(file, index_content) ==
    file

\* caa_index, lines 105-107: the cache file after the fetch has returned.
caa_index_cache(file, index_content) ==
    IF index_content # "None" THEN index_content ELSE file

\* ===================================================== the audit pipeline
VARIABLES
    concurrency,            \* --concurrency, the number of workers
    numTasks,               \* number of task records in the input file
    usualItem,              \* the item most tasks of this run meet
    fleet,                  \* the items the tasks of this run can meet
    variedLeft,             \* how many more tasks may meet another item
    first_state,            \* `state` of the first line of the input file
    qPc, nextLine, qTask,   \* queue_tasks: position, records read, task in hand
    task_q,                 \* asyncio.Queue: the queued tasks
    unfinished_tasks,       \* asyncio.Queue._unfinished_tasks
    wPc, wTask,             \* task_runner: position and task in hand
    wItem,                  \* <<item>> the task in hand has met, <<>> before
    wYielded,               \* results the generator has yielded so far
    wIndexRead,             \* the generator has read self._ia_item.caa_index
    wResults,               \* AuditTask.run: `results`
    had_exception,          \* AuditTask.run: `had_exception`
    exc,                    \* AuditTask.run: class name of the caught `exc`
    wSignal,                \* progress transition put fired for wResults
    internal_error_counter, \* ResultAggregator._internal_error_counter
    cache_file,             \* the lines of results_cache.gz
    _finished,              \* ResultAggregator._finished
    reports,                \* the report files written in full
    bad_items_csv,          \* <<bad_items.csv>> once written, <<>> before
    logs, bad_items, tables,    \* the options of generate-output
    queued, pending_count,  \* ProgressBar.queued, ProgressBar.pending.count
    success, failed, skipped,   \* the three sub-counters
    stage_count,            \* ProgressBar._stage_count
    hist,                   \* per task: how often each thing happened to it
    raisedOutside,          \* an exception escaped a coroutine of the run
    coordPc                 \* do_audit: position

inputVars ==
    <<concurrency, numTasks, usualItem, fleet, first_state>>

queuerVars ==
    <<qPc, nextLine, qTask>>

queueVars ==
    <<task_q, unfinished_tasks>>

workerVars ==
    <<wPc, wTask, wItem, wYielded, wIndexRead, wResults, had_exception, exc,
      wSignal>>

aggrVars ==
    <<internal_error_counter, cache_file>>

progressVars ==
    <<queued, pending_count, success, failed, skipped, stage_count>>

reportVars ==
    <<_finished, reports, bad_items_csv, logs, bad_items, tables>>

\* One IAItem over its cache directory, in the task that uses it.
VARIABLES
    runNo,              \* which run of the audit this is
    iPc,                \* where the task is: "start", the request it awaits
                        \* ("meta_get", "probe", "tasks", "index_get"), "done"
    tries,              \* number of the current call of the retried coroutine
    probe_tries,        \* number of the current call of _is_404
    resp,               \* the answer in flight to the awaited request
    iRaised,            \* class of the exception that ended the task
    gaveup,             \* retried coroutines that have given up in this task
    metadata_json,      \* <<value>> returned by metadata(), <<>> before
    fetched_raw,        \* body the current call of _fetch_metadata has read
    index_content,      \* value returned by caa_index(), "unset" before
    ia_metadata_json,   \* the cache file ia_metadata.json
    index_json,         \* the cache file index.json
    requested,          \* kinds of request issued in this run
    meta_cache_before,  \* ia_metadata.json as the run found it
    prev_metadata,      \* what metadata() returned in the previous run
    prev_index          \* what caa_index() returned in the previous run

taskVars ==
    <<iPc, tries, probe_tries, resp, iRaised, gaveup, metadata_json,
      fetched_raw, index_content, requested>>

itemVars ==
    <<runNo, taskVars, ia_metadata_json, index_json, meta_cache_before,
      prev_metadata, prev_index>>

pipelineVars ==
    <<inputVars, variedLeft, queuerVars, queueVars, workerVars, aggrVars,
      reportVars, progressVars, hist, raisedOutside, coordPc>>

vars ==
    <<pipelineVars, itemVars>>

NoHist ==
    [enq |-> 0, gets |-> 0, runs |-> 0, puts |-> 0, batch |-> 0,
     signals |-> 0, flushes |-> 0, dones |-> 0]

\* The state of the pipeline when do_audit has built the queue, the queuer
\* and the workers (audit_runner.py:119-149): nothing read, nothing queued,
\* every worker in its start-up sleep, the aggregator and the progress bar
\* as constructed.
Constructed ==
    /\ qPc = "read" /\ nextLine = 0 /\ qTask = 0
    /\ task_q = <<>> /\ unfinished_tasks = 0
    /\ wPc = [w \in Workers |-> IF w <= concurrency THEN "jitter" ELSE "absent"]
    /\ wTask = [w \in Workers |-> 0]
    /\ wItem = [w \in Workers |-> <<>>]
    /\ wYielded = [w \in Workers |-> <<>>]
    /\ wIndexRead = [w \in Workers |-> FALSE]
    /\ wResults = [w \in Workers |-> <<>>]
    /\ had_exception = [w \in Workers |-> FALSE]
    /\ exc = [w \in Workers |-> "none"]
    /\ wSignal = [w \in Workers |-> "none"]
    /\ internal_error_counter = 0
    /\ cache_file = <<>>
    /\ queued = 0 /\ pending_count = 0
    /\ success = 0 /\ failed = 0 /\ skipped = 0
    /\ stage_count = [s \in CheckStage |-> 0]
    /\ hist = [t \in Tasks |-> NoHist]
    /\ raisedOutside = FALSE
    /\ coordPc = "await_queuer"
    /\ _finished = FALSE
    /\ reports = {} /\ bad_items_csv = <<>>
    /\ logs = TRUE /\ bad_items = TRUE /\ tables = TRUE

\* No coroutine of an audit exists: before do_audit has created them
\* (audit_runner.py:119-140), and in generate-output, which creates none.
Idle ==
    /\ qPc = "unstarted" /\ nextLine = 0 /\ qTask = 0
    /\ task_q = <<>> /\ unfinished_tasks = 0
    /\ wPc = [w \in Workers |-> "absent"]
    /\ wTask = [w \in Workers |-> 0]
    /\ wItem = [w \in Workers |-> <<>>]
    /\ wYielded = [w \in Workers |-> <<>>]
    /\ wIndexRead = [w \in Workers |-> FALSE]
    /\ wResults = [w \in Workers |-> <<>>]
    /\ had_exception = [w \in Workers |-> FALSE]
    /\ exc = [w \in Workers |-> "none"]
    /\ wSignal = [w \in Workers |-> "none"]
    /\ internal_error_counter = 0
    /\ queued = 0 /\ pending_count = 0
    /\ success = 0 /\ failed = 0 /\ skipped = 0
    /\ stage_count = [s \in CheckStage |-> 0]
    /\ hist = [t \in Tasks |-> NoHist]
    /\ raisedOutside = FALSE
    /\ reports = {} /\ bad_items_csv = <<>>

\* do_audit has its session and is about to await create_tasks (line 138),
\* in an output directory without a journal.
Entered ==
    /\ Idle
    /\ cache_file = <<>>
    /\ _finished = FALSE
    /\ logs = TRUE /\ bad_items = TRUE /\ tables = TRUE
    /\ coordPc = "create_tasks"

\* A task that has just built its IAItem (audit_runner.py:84-86,
\* ia_item.py:72-79): nothing requested, nothing returned.
TaskStart ==
    /\ iPc = "start" /\ tries = 0 /\ probe_tries = 0 /\ resp = "none"
    /\ iRaised = "none" /\ gaveup = {}
    /\ metadata_json = <<>> /\ fetched_raw = "none"
    /\ index_content = "unset"
    /\ requested = {}

\* The first run over an empty cache directory.
FirstRun ==
    /\ runNo = 1
    /\ TaskStart
    /\ ia_metadata_json = "absent" /\ index_json = "absent"
    /\ meta_cache_before = "absent"
    /\ prev_metadata = <<>> /\ prev_index = "unset"

\* The `state` the first line of an input file can carry.
FirstStates ==
    {"meta", "active", "merged"}

\* The runs explored for the safety claims: a tasks file, a concurrency and
\* the answers of the archive (four families: small runs on two workers,
\* long runs during an outage of the archive, one task with every variant
\* of the record, and small runs from before the first line is read).
Init ==
    /\ \/ /\ concurrency \in 1..MaxConcurrency
          /\ numTasks \in 0..MaxTasks
          /\ usualItem = GoodItem
          /\ fleet = PipelineItems
          /\ first_state = "meta"
          /\ Constructed
       \/ /\ concurrency = 1
          /\ numTasks \in {MaxOutageTasks - 2, MaxOutageTasks}
          /\ usualItem = TimeoutItem
          /\ fleet = PipelineItems
          /\ first_state = "meta"
          /\ Constructed
       \/ /\ concurrency = 1
          /\ numTasks = 1
          /\ usualItem = GoodItem
          /\ fleet = Items
          /\ first_state = "meta"
          /\ Constructed
       \/ /\ concurrency \in 1..MaxConcurrency
          /\ numTasks \in 0..MaxTasks
          /\ usualItem = GoodItem
          /\ fleet = PipelineItems
          /\ first_state \in FirstStates
          /\ Entered
    /\ variedLeft = MaxVaried
    /\ FirstRun

\* The coroutines run while do_audit is inside its `with` block.
Running ==
    coordPc \in {"await_queuer", "join"}

\* A variant of full that lets one more task in.
full_late ==
    Len(task_q) > QueueFactor * concurrency

\* asyncio.Queue(concurrency * 2).full()
full ==
    Len(task_q) >= QueueFactor * concurrency

\* A variant of get_nowait that leaves the task in the queue.
get_nowait_peek(q) ==
    [item |-> Head(q), rest |-> q]

\* task_q.get() on a non-empty queue: the oldest task, and what stays.
get_nowait(q) ==
    [item |-> Head(q), rest |-> Tail(q)]

\* A variant of task_done that does not count the task down.
task_done_lost(n) ==
    n

\* task_q.task_done() on the count of unfinished tasks.
task_done(n) ==
    n - 1

\* A variant of join_returns that does not wait for the unfinished tasks.
join_returns_early ==
    TRUE

\* task_q.join() returns.
join_returns ==
    unfinished_tasks = 0

\* ProgressBar.task_enqueued (progress.py:60-62) on the counter queued.
task_enqueued(n) ==
    n + 1

\* A variant of task_running that leaves the counter queued as it is.
task_running_keeping(n) ==
    n

\* ProgressBar.task_running (progress.py:64-67) on the counter queued; the
\* bar pending is updated in the same call.
task_running(n) ==
    n - 1

\* ProgressBar.enter_stage / exit_stage (progress.py:81-87)
enter_stage(sc, stage) ==
    [sc EXCEPT ![stage] = @ + 1]

\* A variant of exit_stage that leaves the counter of the stage as it is.
exit_stage_keeping(sc, stage) ==
    sc

exit_stage(sc, stage) ==
    [sc EXCEPT ![stage] = @ - 1]

\* ------------------------------------------------------------ queue_tasks
\* The stream yields the next task (audit_runner.py:73-81, 87-89).
QueuerRead ==
    /\ Running /\ qPc = "read" /\ nextLine < numTasks
    /\ nextLine' = nextLine + 1
    /\ qTask' = nextLine + 1
    /\ qPc' = "put"
    /\ UNCHANGED <<itemVars, reportVars, inputVars,
                   variedLeft, queueVars, workerVars, aggrVars,
                   progressVars, hist, raisedOutside, coordPc>>

\* json.loads or mb_data['id'] raises on the next record (lines 75-76).
QueuerReadRaises ==
    /\ Running /\ qPc = "read" /\ nextLine < numTasks
    /\ qPc' = "failed"
    /\ raisedOutside' = TRUE
    /\ UNCHANGED <<itemVars, reportVars, inputVars,
                   variedLeft, nextLine, qTask, queueVars,
                   workerVars, aggrVars, progressVars, hist, coordPc>>

\* The stream is exhausted: queue_tasks returns.
QueuerEnd ==
    /\ Running /\ qPc = "read" /\ nextLine = numTasks
    /\ qPc' = "finished"
    /\ UNCHANGED <<itemVars, reportVars, inputVars,
                   variedLeft, nextLine, qTask, queueVars,
                   workerVars, aggrVars, progressVars, hist, raisedOutside,
                   coordPc>>

\* `await task_q.put(...)` returns once the queue is not full, then
\* progress.task_enqueued() (lines 90-91, progress.py:60-62).
QueuerPut ==
    /\ Running /\ qPc = "put" /\ ~full
    /\ task_q' = Append(task_q, qTask)
    /\ unfinished_tasks' = unfinished_tasks + 1
    /\ queued' = task_enqueued(queued)
    /\ hist' = [hist EXCEPT ![qTask].enq = @ + 1]
    /\ qPc' = "read" /\ qTask' = 0
    /\ UNCHANGED <<itemVars, reportVars, inputVars,
                   variedLeft, nextLine, workerVars, aggrVars,
                   pending_count, success, failed, skipped, stage_count,
                   raisedOutside, coordPc>>

\* ------------------------------------------------------------ task_runner
\* The start-up jitter sleep is over (line 97).
WorkerWake(w) ==
    /\ Running /\ wPc[w] = "jitter"
    /\ wPc' = [wPc EXCEPT ![w] = "get"]
    /\ UNCHANGED <<itemVars, reportVars, inputVars,
                   variedLeft, queuerVars, queueVars, wTask,
                   wItem, wYielded, wIndexRead,
                   wResults, had_exception, exc, wSignal, aggrVars,
                   progressVars, hist, raisedOutside, coordPc>>

\* task_q.get() returns a task; task_running, enter_stage(preprocess), and
\* the worker awaits mkdir (lines 99-102, progress.py:64-67).
WorkerGet(w) ==
    /\ Running /\ wPc[w] = "get" /\ task_q # <<>>
    /\ wTask' = [wTask EXCEPT ![w] = get_nowait(task_q).item]
    /\ task_q' = get_nowait(task_q).rest
    /\ pending_count' = pending_count + 1
    /\ queued' = task_running(queued)
    /\ stage_count' = enter_stage(stage_count, "preprocess")
    /\ hist' = [hist EXCEPT ![Head(task_q)].gets = @ + 1]
    /\ wPc' = [wPc EXCEPT ![w] = "mkdir"]
    /\ wItem' = [wItem EXCEPT ![w] = <<>>]
    /\ wYielded' = [wYielded EXCEPT ![w] = <<>>]
    /\ wIndexRead' = [wIndexRead EXCEPT ![w] = FALSE]
    /\ wResults' = [wResults EXCEPT ![w] = <<>>]
    /\ had_exception' = [had_exception EXCEPT ![w] = FALSE]
    /\ exc' = [exc EXCEPT ![w] = "none"]
    /\ wSignal' = [wSignal EXCEPT ![w] = "none"]
    /\ UNCHANGED <<itemVars, reportVars, inputVars,
                   variedLeft, queuerVars, unfinished_tasks,
                   aggrVars, success, failed, skipped, raisedOutside, coordPc>>

\* mkdir returns; exit_stage(preprocess); task.run starts and the generator
\* runs up to the pending-tasks query (audit_runner.py:103-104,
\* audit_task.py:35-46, 86-99).
MkdirReturns(w) ==
    /\ Running /\ wPc[w] = "mkdir"
    /\ \E item \in {usualItem} \cup {i \in fleet : ~i.exists} :
        \E gen \in {_run_start(wTask[w], item)} :
           /\ ~item.exists => variedLeft > 0
           /\ variedLeft' = IF item.exists THEN variedLeft ELSE variedLeft - 1
           /\ wItem' = [wItem EXCEPT ![w] = <<item>>]
           /\ wYielded' = [wYielded EXCEPT ![w] = gen.yielded]
           /\ IF gen.returned
              THEN /\ wResults' = [wResults EXCEPT
                                     ![w] = run_results(wTask[w], gen)]
                   /\ wPc' = [wPc EXCEPT ![w] = "write"]
              ELSE /\ wPc' = [wPc EXCEPT ![w] = "pending"]
                   /\ UNCHANGED wResults
    /\ stage_count' = exit_stage(stage_count, "preprocess")
    /\ hist' = [hist EXCEPT ![wTask[w]].runs = @ + 1]
    /\ UNCHANGED <<itemVars, reportVars, inputVars,
                   queuerVars, queueVars, wTask, wIndexRead,
                   had_exception, exc, wSignal, aggrVars, queued,
                   pending_count, success, failed, skipped, raisedOutside,
                   coordPc>>

\* A coroutine of the pool ends with an exception nobody handles: the
\* worker is gone, its task is never marked done.
WorkerDies(w) ==
    /\ wPc' = [wPc EXCEPT ![w] = "dead"]
    /\ raisedOutside' = TRUE

\* mkdir raises (line 102).
MkdirRaises(w) ==
    /\ Running /\ wPc[w] = "mkdir"
    /\ WorkerDies(w)
    /\ UNCHANGED <<itemVars, reportVars, inputVars,
                   variedLeft, queuerVars, queueVars, wTask,
                   wItem, wYielded, wIndexRead,
                   wResults, had_exception, exc, wSignal, aggrVars,
                   progressVars, hist, coordPc>>

\* has_pending_tasks returns or gives up; the generator runs to its end or
\* to the exception, run builds `results` and awaits the write of
\* failures.log (audit_task.py:41-48, 64, 99-145).
PendingAnswers(w) ==
    /\ Running /\ wPc[w] = "pending"
    /\ \E item \in fleet :
        \E gen \in {_run_rest(wTask[w], item, wYielded[w])} :
           /\ item.exists
           /\ item # usualItem => variedLeft > 0
           /\ variedLeft' = IF item = usualItem
                            THEN variedLeft ELSE variedLeft - 1
           /\ wItem' = [wItem EXCEPT ![w] = <<item>>]
           /\ wYielded' = [wYielded EXCEPT ![w] = gen.yielded]
           /\ wIndexRead' = [wIndexRead EXCEPT ![w] = gen.read_index]
           /\ wResults' = [wResults EXCEPT ![w] = run_results(wTask[w], gen)]
           /\ had_exception' = [had_exception EXCEPT
                                  ![w] = (gen.raised # "none")]
           /\ exc' = [exc EXCEPT ![w] = gen.raised]
    /\ wPc' = [wPc EXCEPT ![w] = "write"]
    /\ UNCHANGED <<itemVars, reportVars, inputVars,
                   queuerVars, queueVars, wTask, wSignal, aggrVars,
                   progressVars, hist, raisedOutside, coordPc>>

\* The write of failures.log raises (audit_task.py:64).
WriteRaises(w) ==
    /\ Running /\ wPc[w] = "write"
    /\ WorkerDies(w)
    /\ UNCHANGED <<itemVars, reportVars, inputVars,
                   variedLeft, queuerVars, queueVars, wTask,
                   wItem, wYielded, wIndexRead,
                   wResults, had_exception, exc, wSignal, aggrVars,
                   progressVars, hist, coordPc>>

\* A variant of put that writes a result to the journal before flagging it,
\* so that the result on which the abort is raised is journaled too.
put_write_first(audit_results) ==
    LET stop == put_raises_at(audit_results, internal_error_counter)
        last == IF stop = 0 THEN Len(audit_results) ELSE stop
    IN [counter |-> internal_error_counter + flagged(audit_results, last),
        journal |-> cache_file
                    \o [i \in 1..last |-> JournalLine(audit_results[i])],
        skipped |-> \E i \in 1..last : isItemSkipped(audit_results[i]),
        failed |-> \E i \in 1..last :
                      /\ ~isItemSkipped(audit_results[i])
                      /\ isCheckFailed(audit_results[i]),
        raised |-> stop # 0]

\* A variant of put that opens the journal anew for every batch (as gzip.open
\* with mode 'wt' does), so that a batch replaces the lines written before.
put_reopening(audit_results) ==
    LET stop == put_raises_at(audit_results, internal_error_counter)
        last == IF stop = 0 THEN Len(audit_results) ELSE stop
        written == IF stop = 0 THEN Len(audit_results) ELSE stop - 1
    IN [counter |-> internal_error_counter + flagged(audit_results, last),
        journal |-> [i \in 1..written |-> JournalLine(audit_results[i])],
        skipped |-> \E i \in 1..written : isItemSkipped(audit_results[i]),
        failed |-> \E i \in 1..written :
                      /\ ~isItemSkipped(audit_results[i])
                      /\ isCheckFailed(audit_results[i]),
        raised |-> stop # 0]

\* ResultAggregator.put (result_aggregator.py:106-121) on a batch: the
\* counter and the journal after the loop, the loop's two flags, and whether
\* the loop was left by the abort.  Results before the raising one have been
\* flagged, classified and written; the raising one has only been counted.
put(audit_results) ==
    LET stop == put_raises_at(audit_results, internal_error_counter)
        last == IF stop = 0 THEN Len(audit_results) ELSE stop
        written == IF stop = 0 THEN Len(audit_results) ELSE stop - 1
    IN [counter |-> internal_error_counter + flagged(audit_results, last),
        journal |-> cache_file
                    \o [i \in 1..written |-> JournalLine(audit_results[i])],
        skipped |-> \E i \in 1..written : isItemSkipped(audit_results[i]),
        failed |-> \E i \in 1..written :
                      /\ ~isItemSkipped(audit_results[i])
                      /\ isCheckFailed(audit_results[i]),
        raised |-> stop # 0]

\* failures.log is written; aggregator.put(results); the summary is logged,
\* run returns, enter_stage(postprocess) and the worker awaits the flush of
\* the log buffer (audit_task.py:64-83, 50-59, audit_runner.py:105-106).
\* If put raises, the exception leaves run and task_runner.
WriteReturns(w) ==
    /\ Running /\ wPc[w] = "write"
    /\ \E st \in {put(wResults[w])} : \E sig \in {put_signal(st)} :
          /\ internal_error_counter' = st.counter
          /\ cache_file' = st.journal
          /\ IF st.raised
             THEN /\ WorkerDies(w)
                  /\ hist' = [hist EXCEPT ![wTask[w]].puts = @ + 1,
                                          ![wTask[w]].batch = Len(wResults[w])]
                  /\ UNCHANGED <<wSignal, success, failed, skipped,
                                 stage_count>>
             ELSE /\ skipped' = IF sig = "task_skipped"
                                THEN skipped + 1 ELSE skipped
                  /\ failed' = IF sig = "task_failed"
                               THEN failed + 1 ELSE failed
                  /\ success' = IF sig = "task_success"
                                THEN success + 1 ELSE success
                  /\ wSignal' = [wSignal EXCEPT ![w] = sig]
                  /\ hist' = [hist EXCEPT ![wTask[w]].puts = @ + 1,
                                          ![wTask[w]].batch = Len(wResults[w]),
                                          ![wTask[w]].signals = @ + 1]
                  /\ stage_count' = enter_stage(stage_count, "postprocess")
                  /\ wPc' = [wPc EXCEPT ![w] = "flush"]
                  /\ UNCHANGED raisedOutside
    /\ UNCHANGED <<itemVars, reportVars, inputVars,
                   variedLeft, queuerVars, queueVars, wTask,
                   wItem, wYielded, wIndexRead,
                   wResults, had_exception, exc, queued, pending_count,
                   coordPc>>

\* The flush returns; exit_stage(postprocess); task_q.task_done(); the
\* worker is back at task_q.get() (lines 106-108, 98-99).
FlushReturns(w) ==
    /\ Running /\ wPc[w] = "flush"
    /\ stage_count' = exit_stage(stage_count, "postprocess")
    /\ unfinished_tasks' = task_done(unfinished_tasks)
    /\ hist' = [hist EXCEPT ![wTask[w]].flushes = @ + 1,
                            ![wTask[w]].dones = @ + 1]
    /\ wPc' = [wPc EXCEPT ![w] = "get"]
    /\ wTask' = [wTask EXCEPT ![w] = 0]
    /\ wItem' = [wItem EXCEPT ![w] = <<>>]
    /\ wYielded' = [wYielded EXCEPT ![w] = <<>>]
    /\ wIndexRead' = [wIndexRead EXCEPT ![w] = FALSE]
    /\ wResults' = [wResults EXCEPT ![w] = <<>>]
    /\ had_exception' = [had_exception EXCEPT ![w] = FALSE]
    /\ exc' = [exc EXCEPT ![w] = "none"]
    /\ wSignal' = [wSignal EXCEPT ![w] = "none"]
    /\ UNCHANGED <<itemVars, reportVars, inputVars,
                   variedLeft, queuerVars, task_q, aggrVars,
                   queued, pending_count, success, failed, skipped,
                   raisedOutside, coordPc>>

\* The flush raises (line 106, LogQueue.flush lines 49-52).
FlushRaises(w) ==
    /\ Running /\ wPc[w] = "flush"
    /\ WorkerDies(w)
    /\ UNCHANGED <<itemVars, reportVars, inputVars,
                   variedLeft, queuerVars, queueVars, wTask,
                   wItem, wYielded, wIndexRead,
                   wResults, had_exception, exc, wSignal, aggrVars,
                   progressVars, hist, coordPc>>

\* --------------------------------------------------------------- do_audit
\* `await queuer` returns (line 151).
CoordQueuerDone ==
    /\ coordPc = "await_queuer" /\ qPc = "finished"
    /\ coordPc' = "join"
    /\ UNCHANGED <<itemVars, reportVars, inputVars,
                   variedLeft, queuerVars, queueVars, workerVars,
                   aggrVars, progressVars, hist, raisedOutside>>

\* `await queuer` re-raises the queuer's exception (line 151): do_audit is
\* left through the exception and asyncio.run tears the loop down.
CoordQueuerFailed ==
    /\ coordPc = "await_queuer" /\ qPc = "failed"
    /\ coordPc' = "crashed"
    /\ wPc' = [w \in Workers |->
                 IF wPc[w] \in {"absent", "dead"} THEN wPc[w] ELSE "killed"]
    /\ UNCHANGED <<itemVars, reportVars, inputVars,
                   variedLeft, queuerVars, queueVars, wTask,
                   wItem, wYielded, wIndexRead,
                   wResults, had_exception, exc, wSignal, aggrVars,
                   progressVars, hist, raisedOutside>>

\* `await task_q.join()` returns when no task is unfinished, and every
\* runner is cancelled (lines 154-158).
CoordJoinDone ==
    /\ coordPc = "join" /\ join_returns
    /\ coordPc' = "cancelled"
    /\ wPc' = [w \in Workers |->
                 IF wPc[w] \in {"absent", "dead"} THEN wPc[w] ELSE "cancelled"]
    /\ UNCHANGED <<itemVars, reportVars, inputVars,
                   variedLeft, queuerVars, queueVars, wTask,
                   wItem, wYielded, wIndexRead,
                   wResults, had_exception, exc, wSignal, aggrVars,
                   progressVars, hist, raisedOutside>>

\* A variant of create_tasks that does not look at the first line's state.
create_tasks_unchecked(state) ==
    FALSE

\* create_tasks (audit_runner.py:54-65) on the `state` of the first line:
\* whether it raises the ValueError of line 62.
create_tasks(state) ==
    state # "meta"

\* `await create_tasks(...)` raises (lines 138-140, 61-62): do_audit is left
\* through the exception before line 142.
CreateTasksRaises ==
    /\ coordPc = "create_tasks" /\ create_tasks(first_state)
    /\ coordPc' = "crashed"
    /\ raisedOutside' = TRUE
    /\ UNCHANGED <<itemVars, reportVars, inputVars, variedLeft, queuerVars,
                   queueVars, workerVars, aggrVars, progressVars, hist>>

\* `await create_tasks(...)` returns the task stream; the progress bar, the
\* queuer, the aggregator and the workers are created (lines 138-148).
CreateTasksReturns ==
    /\ coordPc = "create_tasks" /\ ~create_tasks(first_state)
    /\ \E aggr \in {ResultAggregator_init(cache_file, TRUE)} :
          /\ cache_file' = aggr.cache_file
          /\ _finished' = aggr._finished
    /\ qPc' = "read"
    /\ wPc' = [w \in Workers |-> IF w <= concurrency THEN "jitter" ELSE "absent"]
    /\ coordPc' = "await_queuer"
    /\ UNCHANGED <<itemVars, reports, bad_items_csv, logs, bad_items, tables,
                   inputVars, variedLeft, nextLine, qTask, queueVars, wTask,
                   wItem, wYielded, wIndexRead, wResults, had_exception, exc,
                   wSignal, internal_error_counter, progressVars, hist,
                   raisedOutside>>

\* One report writer over the journal: _iter_results asserts _finished
\* (result_aggregator.py:141) before it reads; the writer then leaves its
\* files, write_failures_csv the rows it computes.
ReportWriter(files) ==
    [raised |-> ~_finished,
     reports |-> IF _finished THEN reports \cup files ELSE reports,
     bad_items_csv |-> IF _finished /\ "bad_items.csv" \in files
                       THEN <<write_failures_csv(cache_file)>>
                       ELSE bad_items_csv]

\* The report writers of do_audit (audit_runner.py:160-167), which run
\* without a suspension point once the workers are cancelled: the first
\* writer that is refused by _iter_results ends do_audit.
WriteReports ==
    /\ coordPc = "cancelled"
    /\ \E out \in {ReportWriter(LogFiles \cup {"bad_items.csv"}
                                  \cup TableFiles)} :
          /\ reports' = out.reports
          /\ bad_items_csv' = out.bad_items_csv
          /\ coordPc' = IF out.raised THEN "reports_failed" ELSE "reported"
    /\ UNCHANGED <<itemVars, _finished, logs, bad_items, tables, inputVars,
                   variedLeft, queuerVars, queueVars, workerVars, aggrVars,
                   progressVars, hist, raisedOutside>>

Next ==
    \/ QueuerRead
    \/ QueuerReadRaises
    \/ QueuerEnd
    \/ QueuerPut
    \/ \E w \in Workers : WorkerWake(w)
    \/ \E w \in Workers : WorkerGet(w)
    \/ \E w \in Workers : MkdirReturns(w)
    \/ \E w \in Workers : MkdirRaises(w)
    \/ \E w \in Workers : PendingAnswers(w)
    \/ \E w \in Workers : WriteReturns(w)
    \/ \E w \in Workers : WriteRaises(w)
    \/ \E w \in Workers : FlushReturns(w)
    \/ \E w \in Workers : FlushRaises(w)
    \/ CoordQueuerDone
    \/ CoordQueuerFailed
    \/ CoordJoinDone
    \/ CreateTasksRaises
    \/ CreateTasksReturns
    \/ WriteReports

Spec ==
    Init /\ [][Next]_vars

\* The coroutines of the run, for the fairness of the event loop: a
\* coroutine that can continue is eventually run, and an awaited operation
\* eventually returns or raises.
QueuerStep ==
    QueuerRead \/ QueuerReadRaises \/ QueuerEnd \/ QueuerPut

WorkerStep(w) ==
    \/ WorkerWake(w) \/ WorkerGet(w)
    \/ MkdirReturns(w) \/ MkdirRaises(w)
    \/ PendingAnswers(w)
    \/ WriteReturns(w) \/ WriteRaises(w)
    \/ FlushReturns(w) \/ FlushRaises(w)

CoordStep ==
    \/ CoordQueuerDone \/ CoordQueuerFailed \/ CoordJoinDone
    \/ CreateTasksRaises \/ CreateTasksReturns \/ WriteReports

FairSpec ==
    /\ Spec
    /\ WF_vars(QueuerStep)
    /\ \A w \in Workers : WF_vars(WorkerStep(w))
    /\ WF_vars(CoordStep)

\* ============================================== one task and its IAItem
\* The requests one task makes through its IAItem, run after run over the
\* same cache directory.  The pipeline model above takes the outcomes of
\* metadata() and has_pending_tasks() as given (item.exists, item.pending);
\* here they are computed.  An action is the code between two awaits of a
\* response; writes to the cache are part of the action that follows the
\* response.

\* A request is sent as call number n of the retried coroutine; the answer
\* is any of Responses.
Send(pc, kind, Responses, n) ==
    /\ iPc' = pc
    /\ tries' = n
    /\ \E r \in Responses : resp' = r
    /\ requested' = requested \cup {kind}
    /\ iRaised' = iRaised

\* The task ends: AuditTask.run has its batch, or the exception of class
\* kind (audit_task.py:41-46).
EndTask(kind) ==
    /\ iPc' = "done"
    /\ tries' = 0
    /\ resp' = "none"
    /\ requested' = requested
    /\ iRaised' = kind

\* _run once metadata() has returned (audit_task.py:87-99): an empty value
\* ends the task with the failed `Item::exists`, else the pending-tasks
\* query is sent.
AfterMetadata(value) ==
    IF falsy(value)
    THEN EndTask("none")
    ELSE Send("tasks", "tasks", TasksResponses, 1)

\* metadata() up to its first await of the network (ia_item.py:81-91).
MetadataLoad ==
    /\ iPc = "start"
    /\ \E cached \in {_load_json_from_cache(ia_metadata_json)} :
          IF cached # <<>>
          THEN /\ metadata_json' = cached
               /\ AfterMetadata(cached[1])
          ELSE /\ Send("meta_get", "metadata", MetadataResponses, 1)
               /\ UNCHANGED metadata_json
    /\ UNCHANGED <<pipelineVars, runNo, probe_tries, gaveup, fetched_raw,
                   index_content, ia_metadata_json, index_json,
                   meta_cache_before, prev_metadata, prev_index>>

\* A call of _fetch_metadata raises an exception of class kind; gu is the
\* set of coroutines that have given up so far (decorator, lines 148-150).
FetchMetadataRaises(kind, gu) ==
    /\ probe_tries' = 0
    /\ fetched_raw' = "none"
    /\ UNCHANGED <<metadata_json, ia_metadata_json>>
    /\ IF on_exception(RetriedWithIAException, kind, tries) = "retry"
       THEN /\ Send("meta_get", "metadata", MetadataResponses, tries + 1)
            /\ gaveup' = gu
       ELSE /\ EndTask(kind)
            /\ gaveup' = gu \cup {"_fetch_metadata"}

\* _fetch_metadata returns (line 176), metadata() writes the bytes to the
\* cache and returns the value (lines 91-93), and _run goes on.
FetchMetadataReturns(raw) ==
    /\ probe_tries' = 0
    /\ fetched_raw' = raw
    /\ ia_metadata_json' = raw
    /\ metadata_json' = <<json_parse(raw)>>
    /\ AfterMetadata(json_parse(raw))
    /\ UNCHANGED gaveup

\* The answer to GET /metadata/<id> arrives (lines 156-176).
MetadataResponds ==
    /\ iPc = "meta_get"
    /\ \E st \in {_fetch_metadata_step(resp)} :
          CASE st.do = "raise" -> FetchMetadataRaises(st.exc, gaveup)
            [] st.do = "probe" ->
                  /\ iPc' = "probe"
                  /\ probe_tries' = 1
                  /\ \E r \in ProbeResponses : resp' = r
                  /\ requested' = requested \cup {"details"}
                  /\ fetched_raw' = resp
                  /\ UNCHANGED <<tries, iRaised, gaveup, metadata_json,
                                 ia_metadata_json>>
            [] st.do = "return" -> FetchMetadataReturns(resp)
    /\ UNCHANGED <<pipelineVars, runNo, index_content, index_json,
                   meta_cache_before, prev_metadata, prev_index>>

\* The answer to GET /details/<id> arrives (lines 198-204, 171-176).
ProbeResponds ==
    /\ iPc = "probe"
    /\ \E st \in {_is_404_step(resp)} :
          IF st.do = "raise"
          THEN IF on_exception(RetriedTransport, st.exc, probe_tries) = "retry"
               THEN /\ probe_tries' = probe_tries + 1
                    /\ \E r \in ProbeResponses : resp' = r
                    /\ UNCHANGED <<iPc, tries, requested, iRaised, gaveup,
                                   fetched_raw, metadata_json,
                                   ia_metadata_json>>
               ELSE FetchMetadataRaises(st.exc, gaveup \cup {"_is_404"})
          ELSE IF st.is_404
               THEN FetchMetadataReturns(fetched_raw)
               ELSE FetchMetadataRaises("IAException", gaveup)
    /\ UNCHANGED <<pipelineVars, runNo, index_content, index_json,
                   meta_cache_before, prev_metadata, prev_index>>

\* caa_index() up to its first await of the network (lines 95-104), as
\* _run_index_checks reads it (audit_task.py:350).
CaaIndexLoad ==
    \E cached \in {_load_from_cache(index_json)} :
        IF cached # <<>>
        THEN /\ index_content' = cached[1]
             /\ EndTask("none")
        ELSE /\ Send("index_get", "index", IndexResponses, 1)
             /\ UNCHANGED index_content

\* _run from the answer of has_pending_tasks to the read of the index
\* (audit_task.py:99-145): a dark item is skipped, line 114 raises KeyError
\* on metadata without item_last_modified, metadata without the key
\* `metadata` fails the task.
AfterPendingTasks(value) ==
    IF "is_dark" \in value.keys THEN EndTask("none") /\ UNCHANGED index_content
    ELSE IF "item_last_modified" \notin value.keys
    THEN EndTask("KeyError") /\ UNCHANGED index_content
    ELSE IF "metadata" \notin value.keys
    THEN EndTask("none") /\ UNCHANGED index_content
    ELSE CaaIndexLoad

\* The answer to the tasks.php query arrives (lines 110-125).
PendingTasksResponds ==
    /\ iPc = "tasks"
    /\ \E st \in {has_pending_tasks_step(resp)} :
          IF st.do = "raise"
          THEN /\ UNCHANGED index_content
               /\ IF on_exception(RetriedWithIAException, st.exc, tries)
                       = "retry"
                  THEN /\ Send("tasks", "tasks", TasksResponses, tries + 1)
                       /\ UNCHANGED gaveup
                  ELSE /\ EndTask(st.exc)
                       /\ gaveup' = IF st.exc \in RetriedWithIAException
                                    THEN gaveup \cup {"has_pending_tasks"}
                                    ELSE gaveup
          ELSE /\ UNCHANGED gaveup
               /\ IF st.value
                  THEN EndTask("none") /\ UNCHANGED index_content
                  ELSE AfterPendingTasks(metadata_json[1])
    /\ UNCHANGED <<pipelineVars, runNo, probe_tries, metadata_json,
                   fetched_raw, ia_metadata_json, index_json,
                   meta_cache_before, prev_metadata, prev_index>>

\* The answer to GET /download/<id>/index.json arrives (lines 178-196,
\* 104-108).
IndexResponds ==
    /\ iPc = "index_get"
    /\ \E st \in {_fetch_index_step(resp)} :
          IF st.do = "raise"
          THEN /\ UNCHANGED <<index_content, index_json>>
               /\ IF on_exception(RetriedTransport, st.exc, tries) = "retry"
                  THEN /\ Send("index_get", "index", IndexResponses, tries + 1)
                       /\ UNCHANGED gaveup
                  ELSE /\ EndTask(st.exc)
                       /\ gaveup' = gaveup \cup {"_fetch_index"}
          ELSE /\ index_content' = st.value
               /\ index_json' = caa_index_cache(index_json, st.value)
               /\ EndTask("none")
               /\ UNCHANGED gaveup
    /\ UNCHANGED <<pipelineVars, runNo, probe_tries, metadata_json,
                   fetched_raw, ia_metadata_json, meta_cache_before,
                   prev_metadata, prev_index>>

\* The audit is run again with the same input over the cache directory the
\* run before has left (audit_task.py:33: the cache directory of the IAItem
\* is the directory of the task).
NextRun ==
    /\ iPc = "done" /\ runNo < MaxRuns
    /\ runNo' = runNo + 1
    /\ prev_metadata' = metadata_json
    /\ prev_index' = index_content
    /\ meta_cache_before' = ia_metadata_json
    /\ iPc' = "start" /\ tries' = 0 /\ probe_tries' = 0 /\ resp' = "none"
    /\ iRaised' = "none" /\ gaveup' = {}
    /\ metadata_json' = <<>> /\ fetched_raw' = "none"
    /\ index_content' = "unset"
    /\ requested' = {}
    /\ UNCHANGED <<pipelineVars, ia_metadata_json, index_json>>

\* One task on an item whose cache directory is in any state, the pipeline
\* around it at rest.
ItemInit ==
    /\ concurrency = 1 /\ numTasks = 0
    /\ usualItem = GoodItem /\ fleet = {GoodItem}
    /\ first_state = "meta"
    /\ variedLeft = 0
    /\ Constructed
    /\ runNo = 1
    /\ TaskStart
    /\ ia_metadata_json \in NoFile \cup RawBodies
    /\ index_json \in NoFile \cup {"index_bytes"}
    /\ meta_cache_before = ia_metadata_json
    /\ prev_metadata = <<>> /\ prev_index = "unset"

ItemNext ==
    \/ MetadataLoad
    \/ MetadataResponds
    \/ ProbeResponds
    \/ PendingTasksResponds
    \/ IndexResponds
    \/ NextRun

ItemSpec ==
    ItemInit /\ [][ItemNext]_vars

\* ====================================================== generate-output
\* main.py:29-53: the report writers are run again over the journal an
\* earlier audit left in the output directory.  No coroutine exists; a step
\* is the construction of the aggregator or one of the three optional
\* groups of writers.

\* The lines a journal found in the output directory is made of.
JournalLines ==
    {<<mbid, ReportDescriptions[d], check_state>> :
        mbid \in 1..MaxMbids, d \in 1..Len(ReportDescriptions),
        check_state \in {"PASSED", "FAILED", "ITEM SKIPPED"}}

Journals ==
    UNION {[1..n -> JournalLines] : n \in 0..MaxJournal}

\* generate_output is entered with its options, results_cache.gz being a
\* file (lines 41-43).
GenerateInit ==
    /\ concurrency = 1 /\ numTasks = 0
    /\ usualItem = GoodItem /\ fleet = {GoodItem}
    /\ first_state = "meta"
    /\ variedLeft = 0
    /\ Idle
    /\ FirstRun
    /\ cache_file \in Journals
    /\ _finished = FALSE
    /\ logs \in BOOLEAN /\ bad_items \in BOOLEAN /\ tables \in BOOLEAN
    /\ coordPc = "generate_output"

\* write_logs(outp, aggr): the two logs are written from the journal.
write_logs ==
    ReportWriter(LogFiles)

\* write_failed_items(outp, aggr): bad_items.csv is written from the
\* journal.
write_failed_items ==
    ReportWriter({"bad_items.csv"})

\* write_tables(outp, aggr): the three tables are written from the journal.
write_tables ==
    ReportWriter(TableFiles)

\* One optional group of writers of generate_output, and where it goes on.
Generate(pc, wanted, out, next) ==
    /\ coordPc = pc
    /\ IF wanted
       THEN /\ reports' = out.reports
            /\ bad_items_csv' = out.bad_items_csv
            /\ coordPc' = IF out.raised THEN "reports_failed" ELSE next
       ELSE /\ coordPc' = next
            /\ UNCHANGED <<reports, bad_items_csv>>
    /\ UNCHANGED <<itemVars, _finished, logs, bad_items, tables, inputVars,
                   variedLeft, queuerVars, queueVars, workerVars, aggrVars,
                   progressVars, hist, raisedOutside>>

\* aggr = ResultAggregator(outp, None, open_cache=False) (lines 45-46).
GenerateOutputStart ==
    /\ coordPc = "generate_output"
    /\ \E aggr \in {ResultAggregator_init(cache_file, FALSE)} :
          /\ cache_file' = aggr.cache_file
          /\ _finished' = aggr._finished
    /\ coordPc' = "write_logs"
    /\ UNCHANGED <<itemVars, reports, bad_items_csv, logs, bad_items, tables,
                   inputVars, variedLeft, queuerVars, queueVars, workerVars,
                   internal_error_counter, progressVars, hist, raisedOutside>>

\* `if logs: write_logs(outp, aggr)` (lines 48-49).
GenerateLogs ==
    Generate("write_logs", logs, write_logs, "write_failed_items")

\* `if bad_items: write_failed_items(outp, aggr)` (lines 50-51).
GenerateBadItems ==
    Generate("write_failed_items", bad_items, write_failed_items,
             "write_tables")

\* `if tables: write_tables(outp, aggr)` (lines 52-53).
GenerateTables ==
    Generate("write_tables", tables, write_tables, "generated")

GenerateNext ==
    \/ GenerateOutputStart
    \/ GenerateLogs
    \/ GenerateBadItems
    \/ GenerateTables

GenerateSpec ==
    GenerateInit /\ [][GenerateNext]_vars

\* ================================================================ claims
\* Number of workers that hold task t.
Holders(t) ==
    Cardinality({w \in Workers : wTask[w] = t})

\* Number of places of the queue that hold task t.
QueuePlaces(t) ==
    Cardinality({i \in 1..Len(task_q) : task_q[i] = t})

\* Worker w died inside put: its task's batch was handed to put, and no
\* progress transition followed.
DiedInPut(w) ==
    /\ wPc[w] = "dead"
    /\ wTask[w] # 0
    /\ hist[wTask[w]].puts = 1
    /\ hist[wTask[w]].signals = 0

\* The first `::`-segment of a journal line's description is InternalError.
IsInternalErrorLine(line) ==
    /\ Len(line[2]) >= 1
    /\ line[2][1] = "InternalError"

\* The transition the precedence skipped > failed > success selects.
ExpectedSignal(batch) ==
    IF \E i \in 1..Len(batch) : batch[i].check_state = "ITEM SKIPPED"
    THEN "task_skipped"
    ELSE IF \E i \in 1..Len(batch) : batch[i].check_state = "FAILED"
    THEN "task_failed"
    ELSE "task_success"

RECURSIVE SumOver(_, _)
SumOver(f, n) ==
    IF n = 0 THEN 0 ELSE f[n] + SumOver(f, n - 1)

\* C1: for every task a worker picked up and whose run went through its
\* report stage, on the normal path and on the path where the checks
\* raised, put was called exactly once with the task's results, and the
\* batch was not empty; put is never called twice for a task.
C1_PutOncePerTask ==
    /\ \A t \in Tasks :
        /\ hist[t].puts <= 1
        /\ hist[t].puts <= hist[t].gets
        /\ hist[t].dones >= 1 => (hist[t].puts = 1 /\ hist[t].batch >= 1)
    /\ \A w \in Workers :
        wPc[w] = "flush" =>
            /\ hist[wTask[w]].puts = 1
            /\ hist[wTask[w]].batch = Len(wResults[w])
            /\ Len(wResults[w]) >= 1
            /\ \A i \in 1..Len(wResults[w]) : wResults[w][i].mbid = wTask[w]

\* C1 witness: one task is done and another one, whose checks raised, has
\* been through put.
C1_Witness ==
    /\ \E t \in Tasks : hist[t].dones = 1
    /\ \E w \in Workers : wPc[w] = "flush" /\ had_exception[w]

\* C2: when the checks of a task raised, the task's batch is exactly one
\* ItemSkipped whose description is InternalError::<exception class name>,
\* none of the results yielded before the exception is in it, and the
\* report stage still runs (the worker goes on to the write of failures.log
\* and to put).
C2_InternalErrorBatch ==
    \A w \in Workers :
        had_exception[w] =>
            /\ Len(wResults[w]) = 1
            /\ wResults[w][1].check_state = "ITEM SKIPPED"
            /\ wResults[w][1].mbid = wTask[w]
            /\ category(wResults[w][1]) = << <<"InternalError">>, <<exc[w]>> >>
            /\ exc[w] \in PendingErrors
                         \cup {"KeyError", "TypeError", "AttributeError"}
            /\ \A i \in 1..Len(wYielded[w]) : wYielded[w][i] # wResults[w][1]
            /\ wPc[w] \in {"write", "flush", "dead", "killed"}
            /\ wPc[w] = "flush" => hist[wTask[w]].puts = 1

\* C2 witness: the checks raised after several results had been yielded,
\* and the one-element batch has been reported.
C2_Witness ==
    \E w \in Workers :
        /\ had_exception[w]
        /\ Len(wYielded[w]) > 1
        /\ wPc[w] = "flush"

C4_Original ==
    coordPc \in {"cancelled", "crashed"} =>
        Len(cache_file) = SumOver([t \in Tasks |-> hist[t].batch],
                                  MaxOutageTasks)

\* C4 amended: at the end of a run, and at every moment before, the journal
\* has as many lines as the batches that put accepted without raising the
\* internal-error abort have results: every result of such a batch is
\* journaled exactly once, InternalError results included; the batch on
\* which put raises adds no line.
C4_JournalLineCount ==
    Len(cache_file)
      = SumOver([t \in Tasks |-> IF hist[t].signals = 1 THEN hist[t].batch
                                 ELSE 0], MaxOutageTasks)

\* C4 witness: a run has ended normally with an InternalError batch and a
\* longer batch in the journal.
C4_Witness ==
    /\ coordPc = "cancelled"
    /\ \E i \in 1..Len(cache_file) : IsInternalErrorLine(cache_file[i])
    /\ Len(cache_file) > numTasks

\* C5: once the aggregator has raised the internal-error abort on the 11th
\* InternalError result, the run comes to its end: the run is never at rest
\* (no coroutine able to continue) with the coordinator still blocked on the
\* queuer or on the drain of the queue.
C5_RunEndsAfterAbort ==
    internal_error_counter > MaxInternalErrors =>
        (coordPc \notin {"await_queuer", "join"} \/ ENABLED Next)

\* C6: the counter counts every InternalError result handed to put over the
\* whole run, never reset: it equals the InternalError lines of the journal
\* plus the results on which put raised; and put has raised exactly if the
\* counter is greater than 10.
C6_CumulativeCounter ==
    /\ internal_error_counter
         = Cardinality({i \in 1..Len(cache_file) :
                            IsInternalErrorLine(cache_file[i])})
           + Cardinality({w \in Workers : DiedInPut(w)})
    /\ (\E w \in Workers : DiedInPut(w)) <=> internal_error_counter > 10
    /\ Cardinality({i \in 1..Len(cache_file) :
                       IsInternalErrorLine(cache_file[i])}) <= 10

\* C6 witness: put has raised on the 11th InternalError result, and a result
\* of another kind was journaled between two InternalError results.
C6_Witness ==
    /\ internal_error_counter = 11
    /\ \E w \in Workers : DiedInPut(w)
    /\ \E i, j, k \in 1..Len(cache_file) :
        /\ i < j /\ j < k
        /\ IsInternalErrorLine(cache_file[i])
        /\ ~IsInternalErrorLine(cache_file[j])
        /\ IsInternalErrorLine(cache_file[k])

\* Every task record of the input has been enqueued, pulled, run and marked
\* done, each once; the queuer has finished and the queue is empty.
AllTasksDone ==
    /\ qPc = "finished"
    /\ nextLine = numTasks
    /\ task_q = <<>>
    /\ unfinished_tasks = 0
    /\ \A t \in 1..numTasks :
        /\ hist[t].enq = 1 /\ hist[t].gets = 1
        /\ hist[t].runs = 1 /\ hist[t].dones = 1

\* C7: in a run where nothing raises outside a task's own exception handler,
\* under fair scheduling the coordinator eventually gets past the queuer and
\* the drain of the queue and cancels the workers, and then every task record
\* has been enqueued, run and marked done.
C7_RunTerminates ==
    <>(raisedOutside \/ (coordPc = "cancelled" /\ AllTasksDone))

\* C7 witness: a run of MaxTasks tasks has ended with nothing raised.
C7_Witness ==
    /\ coordPc = "cancelled"
    /\ ~raisedOutside
    /\ numTasks = MaxTasks
    /\ AllTasksDone

C9_EachTaskOnce ==
    \A t \in Tasks :
        /\ hist[t].enq <= 1 /\ hist[t].gets <= 1
        /\ hist[t].runs <= 1 /\ hist[t].dones <= 1
        /\ (IF t <= nextLine THEN 1 ELSE 0)
             = (IF qTask = t THEN 1 ELSE 0) + QueuePlaces(t) + Holders(t)
               + hist[t].dones

\* C9 witness: two workers run two different tasks while a third task is
\* done.
C9_Witness ==
    /\ \E w1, w2 \in Workers :
        /\ w1 # w2
        /\ wPc[w1] \in {"pending", "write"}
        /\ wPc[w2] \in {"pending", "write"}
        /\ wTask[w1] # wTask[w2]
    /\ \E t \in Tasks : hist[t].dones = 1

\* C10: the queue never holds more than 2 * concurrency tasks, and while it
\* is full the queuer stays blocked in put: its task goes into the queue
\* only in a state where the queue is not full, that is after a worker has
\* removed a task.
C10_BoundedQueue ==
    /\ [](Len(task_q) <= 2 * concurrency)
    /\ [][(qPc = "put" /\ Len(task_q) = 2 * concurrency)
            => (qPc' = "put" /\ qTask' = qTask
                /\ Len(task_q') <= Len(task_q))]_vars

\* C10 witness: the queuer waits in put with a task in hand, the queue full.
C10_Witness ==
    /\ qPc = "put"
    /\ Len(task_q) = 2 * concurrency

\* The worker's coroutine ended with an exception before it reached the
\* flush of the log buffer: in mkdir, in the write of failures.log or in
\* aggregator.put.
DiedBeforeFlush(w) ==
    /\ wPc[w] = "dead"
    /\ wTask[w] # 0
    /\ hist[wTask[w]].signals = 0

\* C11: for every task a worker has pulled, the log buffer is flushed before
\* the task is marked done, and the flush happens also when the directory
\* creation, task.run or the report stage raises: a task is never done more
\* often than it is flushed, and a task whose worker was left through an
\* exception of mkdir, write or put has had its buffer flushed.
C11_FlushedAlsoOnException ==
    /\ \A t \in Tasks : hist[t].dones <= hist[t].flushes
    /\ \A w \in Workers :
          DiedBeforeFlush(w) => hist[wTask[w]].flushes >= 1

\* The number of workers that have entered the stage and are inside its
\* body: preprocess is the mkdir, postprocess the flush.
InsideStage(stage) ==
    Cardinality({w \in Workers :
        \/ stage = "preprocess" /\ wPc[w] = "mkdir"
        \/ stage = "postprocess" /\ wPc[w] = "flush"})

\* C12: every enter_stage(s) of a task is followed by exactly one
\* exit_stage(s), also when the stage body raises: as long as the run has
\* not been torn down, the stage counter of the progress reporter counts
\* exactly the workers that are inside the body of the stage.
C12_ExitMatchesEnter ==
    coordPc # "crashed" =>
        \A stage \in CheckStage : stage_count[stage] = InsideStage(stage)

\* The worker has run the generator of its task to the end on an item that
\* exists and has no pending catalog task: the batch is built.
RanOn(w) ==
    /\ wPc[w] \in {"write", "flush"}
    /\ Len(wItem[w]) = 1
    /\ wItem[w][1].exists
    /\ wItem[w][1].pending = "no"

\* The first segment of the result's description is one of the names.
InStage(res, names) ==
    /\ Len(category(res)) >= 1
    /\ \E n \in names : category(res)[1] = <<n>>

\* C13: once the item is found dark, or modified at or after
\* max_last_modified, no metadata, files or index result is emitted for the
\* task, the index document is not fetched, and the skip result is the last
\* result of the batch.
C13_NoStageAfterSkip ==
    \A w \in Workers :
        (/\ RanOn(w)
         /\ \/ wItem[w][1].is_dark
            \/ wItem[w][1].item_last_modified >= wItem[w][1].max_last_modified)
        => /\ ~wIndexRead[w]
           /\ Len(wResults[w]) >= 1
           /\ isItemSkipped(wResults[w][Len(wResults[w])])
           /\ \A i \in 1..Len(wResults[w]) :
                 /\ ~InStage(wResults[w][i], {"Metadata", "Files", "CAAIndex"})
                 /\ isItemSkipped(wResults[w][i]) => i = Len(wResults[w])

\* C13 witness: a task has met an item modified exactly at
\* max_last_modified and has reported its batch.
C13_Witness ==
    \E w \in Workers :
        /\ RanOn(w)
        /\ wPc[w] = "flush"
        /\ ~wItem[w][1].is_dark
        /\ wItem[w][1].item_last_modified = wItem[w][1].max_last_modified

\* C14: for an item with non-empty metadata, no pending task and
\* is_dark = true, the batch is exactly CheckPassed `Item::exists`,
\* CheckPassed `Item::has pending tasks`, ItemSkipped `Item::darkened`, and
\* the progress transition is task_skipped.
C14_DarkBatch ==
    \A w \in Workers :
        (RanOn(w) /\ wItem[w][1].is_dark)
        => /\ wResults[w]
                = << CheckPassed(wTask[w], <<"Item", Sep, "exists">>),
                     CheckPassed(wTask[w],
                                 <<"Item", Sep, "has pending tasks">>),
                     ItemSkipped(wTask[w], <<"Item", Sep, "darkened">>) >>
           /\ wPc[w] = "flush" => wSignal[w] = "task_skipped"

\* The `ia modified` precondition as the specification states it.
ia_modified_passes(item) ==
    \/ item.item_last_modified < item.max_last_modified
    \/ ~item.original_newer

\* C15: for an item that is not dark, the `ia modified` precondition passes
\* iff the item was last modified strictly before max_last_modified or no
\* original file is newer than max_last_modified; when it passes the task
\* goes on without a skip, when it does not the batch ends with an
\* ItemSkipped whose description ends in `::ia modified`.
C15_IaModified ==
    \A w \in Workers :
        (RanOn(w) /\ ~wItem[w][1].is_dark)
        => LET last == wResults[w][Len(wResults[w])]
               desc == last.check_description
           IN IF ia_modified_passes(wItem[w][1])
              THEN ~isItemSkipped(last)
              ELSE /\ isItemSkipped(last)
                   /\ Len(desc) >= 3
                   /\ desc[Len(desc) - 1] = Sep
                   /\ desc[Len(desc)] = "ia modified"

\* The batch of the task that has ended (audit_task.py:41-46): the results
\* yielded before has_pending_tasks was called are the check of
\* `Item::exists`.
TaskBatch ==
    run_results(1, [yielded |-> IF "tasks" \in requested
                                THEN <<CheckPassed(1, <<"Item", Sep, "exists">>)>>
                                ELSE <<>>,
                    returned |-> iRaised = "none",
                    raised |-> iRaised])

\* C16: each retried remote operation (metadata fetch, pending-tasks
\* query, 404 probe) is attempted at most 15 times, and when its 15th
\* attempt has failed the error has left the operation and the task has
\* ended with the single result ItemSkipped `InternalError::<Kind>`.
C16_GiveUpEndsTask ==
    /\ tries <= max_tries
    /\ probe_tries <= max_tries
    /\ gaveup # {} =>
          /\ iPc = "done"
          /\ iRaised \in RetriedWithIAException
          /\ TaskBatch = <<ItemSkipped(1, InternalErrorDesc(iRaised))>>

\* In this step metadata() returns a value it has fetched (the step is not
\* the load of the cache).
MetadataFetchedReturns ==
    /\ iPc \in {"meta_get", "probe"}
    /\ metadata_json = <<>>
    /\ metadata_json' # <<>>

\* C17: metadata() returns an empty value fetched from the archive only in
\* the step in which the details request is answered with status 404; when
\* the body is empty and the probe is answered with another status, the
\* attempt fails with an IAException, which is retried (or, on the last
\* attempt, raised), and the empty value is neither returned nor written to
\* the cache by that attempt.
C17_EmptyOnlyAfter404 ==
    [][/\ (MetadataFetchedReturns /\ falsy(metadata_json'[1]))
            => (iPc = "probe" /\ resp = "404")
       /\ (iPc = "probe" /\ resp \in {"200", "500"})
            => /\ metadata_json' = <<>>
               /\ ia_metadata_json' = ia_metadata_json
               /\ IF tries < max_tries
                  THEN iPc' = "meta_get" /\ tries' = tries + 1
                  ELSE iPc' = "done" /\ iRaised' = "IAException"]_vars

\* C17 witness: on an empty cache the archive has answered the metadata
\* request with the empty object and the probe with 404, and metadata() has
\* returned and cached the empty object.
C17_Witness ==
    /\ iPc = "done"
    /\ "details" \in requested
    /\ gaveup = {}
    /\ metadata_json = <<json_parse("{}")>>
    /\ ia_metadata_json = "{}"
    /\ meta_cache_before = "absent"

\* C18 as stated: in a run over the cache left by the run before, no
\* request for the metadata and none for index.json is issued.
C18_Original ==
    runNo >= 2 => ("metadata" \notin requested /\ "index" \notin requested)

\* C18: in a run over the cache left by the run before, no request for the
\* metadata (nor a probe) is issued if metadata() returned a value other
\* than null in the run before, and none for index.json if caa_index()
\* returned the document in the run before; the pending-tasks request is
\* issued whenever metadata() has returned a non-empty value.
C18_SecondRunUsesCache ==
    /\ runNo >= 2 =>
          /\ (prev_metadata # <<>> /\ ~prev_metadata[1].null)
                => ("metadata" \notin requested /\ "details" \notin requested)
          /\ prev_index \notin {"unset", "None"} => "index" \notin requested
    /\ (metadata_json # <<>> /\ ~falsy(metadata_json[1]))
          => "tasks" \in requested

\* C18 witness: a second run has ended on the cache of a first run that
\* had fetched the metadata and the index; it has asked for the pending
\* tasks and for nothing else.
C18_Witness ==
    /\ runNo = 2
    /\ iPc = "done"
    /\ meta_cache_before = "{meta}"
    /\ prev_index = "index_bytes"
    /\ index_content = "index_bytes"
    /\ requested = {"tasks"}

\* C19: when the run finds an ia_metadata.json that cannot be read or does
\* not parse, metadata() fetches from the archive; whenever it returns, the
\* value is the parse of the fetched bytes and the cache file holds the
\* fetched bytes, so the corrupt content is never returned.
C19_CorruptCacheIsMiss ==
    meta_cache_before \in {"unreadable", "garbage"} =>
        /\ iPc # "start" => "metadata" \in requested
        /\ metadata_json # <<>> =>
              /\ json_parse(fetched_raw).ok
              /\ metadata_json[1] = json_parse(fetched_raw)
              /\ ia_metadata_json = fetched_raw

\* C19 witness: the run found bytes that are not JSON in the cache, and
\* metadata() has returned the fetched metadata, now in the cache.
C19_Witness ==
    /\ meta_cache_before = "garbage"
    /\ iPc = "done"
    /\ metadata_json = <<json_parse("{meta}")>>
    /\ ia_metadata_json = "{meta}"

\* C20: a 404 answer for index.json makes caa_index() return None in that
\* step, with no further request and no cache file written; a 404 answer
\* to the details probe is likewise taken as the result of the probe, in
\* that step: metadata() returns the fetched empty value.
C20_NotFoundIsAnAnswer ==
    [][/\ (iPc = "index_get" /\ resp = "404")
            => /\ iPc' = "done" /\ iRaised' = "none"
               /\ index_content' = "None"
               /\ index_json' = index_json
               /\ index_json \in NoFile
               /\ requested' = requested
       /\ (iPc = "probe" /\ resp = "404")
            => /\ iPc' = "done" /\ iRaised' = "none"
               /\ metadata_json' = <<json_parse(fetched_raw)>>
               /\ requested' = requested]_vars

\* C20 witness: index.json was requested and answered with 404, and
\* caa_index() has returned None with no cache file.
C20_Witness ==
    /\ iPc = "done"
    /\ iRaised = "none"
    /\ "index" \in requested
    /\ index_content = "None"
    /\ index_json = "absent"

\* ------------------------------------------------------------------ C21
\* The lines of the journal that belong to one task form one block.
Contiguous(journal) ==
    \A i, k \in 1..Len(journal) :
        (i < k /\ journal[i][1] = journal[k][1])
            => \A j \in i..k : journal[j][1] = journal[i][1]

\* C21: every step leaves the lines already in the journal where they are
\* and as they are (the earlier journal is a prefix of the later one), the
\* lines a step adds are the lines of one task's batch, in the batch's
\* order, and the lines of two tasks never interleave.
C21_JournalAppendOnly ==
    [][/\ Len(cache_file') >= Len(cache_file)
       /\ SubSeq(cache_file', 1, Len(cache_file)) = cache_file
       /\ Len(cache_file') > Len(cache_file)
            => \E w \in Workers :
                  /\ wPc[w] = "write"
                  /\ \A i \in 1..(Len(cache_file') - Len(cache_file)) :
                        cache_file'[Len(cache_file) + i]
                            = JournalLine(wResults[w][i])
       /\ Contiguous(cache_file')]_vars

\* C21 witness: the journal begins with the block of one task and ends with
\* the block of another, each of several lines, while one worker has come
\* back from put and another is about to call it.
C21_Witness ==
    /\ Len(cache_file) >= 4
    /\ cache_file[1][1] = cache_file[2][1]
    /\ cache_file[Len(cache_file)][1] = cache_file[Len(cache_file) - 1][1]
    /\ cache_file[1][1] # cache_file[Len(cache_file)][1]
    /\ \E w \in Workers : wPc[w] = "flush"
    /\ \E w \in Workers : wPc[w] = "write"

\* ------------------------------------------------------------------ C22
\* C22: the report writers of a run read a journal that finish() has
\* closed: no writer is refused by the assertion of _iter_results.
C22_WritersReadFinishedJournal ==
    coordPc # "reports_failed"

\* ------------------------------------------------------------------ C26
\* C26: when the first line of the input file has a state other than
\* `meta`, the run is before create_tasks or has been left through its
\* error, and it can only be left that way: no line has been read as a
\* task, nothing was ever enqueued, no worker and no queuer exists, no task
\* has run and no request has been issued.
C26_BadFirstLineAborts ==
    first_state # "meta" =>
        /\ coordPc \in {"create_tasks", "crashed"}
        /\ coordPc = "create_tasks" => ENABLED CreateTasksRaises
        /\ coordPc = "crashed" => raisedOutside
        /\ qPc = "unstarted" /\ nextLine = 0 /\ qTask = 0
        /\ task_q = <<>> /\ unfinished_tasks = 0 /\ queued = 0
        /\ \A w \in Workers : wPc[w] = "absent"
        /\ \A t \in Tasks : hist[t] = NoHist
        /\ requested = {}

\* C26 witness: a run over a file of several records whose first line is a
\* record, not the meta line, has been left through the error.
C26_Witness ==
    /\ first_state = "active"
    /\ numTasks >= 2
    /\ concurrency = MaxConcurrency
    /\ coordPc = "crashed"
    /\ raisedOutside

\* ------------------------------------------------------------------ C23
\* The journal lines with state FAILED.
FailedLines ==
    {i \in 1..Len(cache_file) : cache_file[i][3] = "FAILED"}

\* C23: bad_items.csv, once written, has one data row for every MBID with
\* a FAILED line in the journal and for no other MBID, the rows in
\* ascending order of the MBID; after the column mbid it has one column
\* for every description of a FAILED line, in ascending order; and the
\* cell of an MBID and a description is the number of FAILED lines with
\* that MBID and that description, 0 when there is none.
C23_BadItemsCsv ==
    bad_items_csv # <<>> =>
        LET header == bad_items_csv[1].header
            rows == bad_items_csv[1].rows
            mbids == {cache_file[i][1] : i \in FailedLines}
            descs == {cache_file[i][2] : i \in FailedLines}
        IN /\ Len(rows) = Cardinality(mbids)
           /\ {rows[r][1] : r \in 1..Len(rows)} = mbids
           /\ \A r, q \in 1..Len(rows) : r < q => rows[r][1] < rows[q][1]
           /\ header[1] = <<"mbid">>
           /\ Len(header) = 1 + Cardinality(descs)
           /\ {header[c] : c \in 2..Len(header)} = descs
           /\ \A c, d \in 2..Len(header) :
                 c < d => str_order(header[c]) < str_order(header[d])
           /\ \A r \in 1..Len(rows) :
                 /\ Len(rows[r]) = Len(header)
                 /\ \A c \in 2..Len(header) :
                       rows[r][c]
                         = str(Cardinality(
                              {i \in FailedLines :
                                  /\ cache_file[i][1] = rows[r][1]
                                  /\ cache_file[i][2] = header[c]}))

\* C23 witness: bad_items.csv was written from a journal that is not in
\* the order of the MBIDs and has a line that is not FAILED; it has two
\* rows, two description columns and a cell with 0.
C23_Witness ==
    /\ bad_items_csv # <<>>
    /\ Len(bad_items_csv[1].rows) = 2
    /\ Len(bad_items_csv[1].header) = 3
    /\ \E r \in 1..2 : \E c \in 2..3 : bad_items_csv[1].rows[r][c] = <<"0">>
    /\ \E i \in 1..Len(cache_file) : cache_file[i][3] # "FAILED"
    /\ cache_file[1][1] > cache_file[2][1]

\* ------------------------------------------------------------------ C24
\* C24: no step of generate-output changes the journal it found: the
\* aggregator is constructed without opening it for writing and is finished
\* from then on, and no writer is refused or writes to it.
C24_GenerateOutputKeepsJournal ==
    [][/\ cache_file' = cache_file
       /\ _finished'
       /\ coordPc' # "reports_failed"]_vars

\* C24 witness: generate-output has run all its writers over a journal of
\* several lines.
C24_Witness ==
    /\ coordPc = "generated"
    /\ Len(cache_file) = MaxJournal
    /\ reports = LogFiles \cup {"bad_items.csv"} \cup TableFiles
    /\ bad_items_csv # <<>>

\* ------------------------------------------------------------------ C25
\* Worker w was left through an exception of the write of failures.log: its
\* task has run, and its batch was never handed to put.
DiedInWrite(w) ==
    /\ wPc[w] = "dead"
    /\ wTask[w] # 0
    /\ hist[wTask[w]].runs = 1
    /\ hist[wTask[w]].puts = 0

\* C25: once the write of a task's failures.log has raised, the run comes
\* to its end: it is never at rest, no coroutine able to continue, with the
\* coordinator still blocked on the queuer or on the drain of the queue.
C25_WriteFailureEndsRun ==
    (\E w \in Workers : DiedInWrite(w)) =>
        (coordPc \notin {"await_queuer", "join"} \/ ENABLED Next)

\* ------------------------------------------------------------------ C27
\* The base category of the results of a task, by the state of its record.
BaseCategory(state) ==
    CASE state = "active" -> "Item"
      [] state = "empty" -> "EmptyItem"
      [] state = "possibly_deleted" -> "DeletedItem"
      [] state = "merged" -> "MergedItem"

\* Worker w holds the batch of a task that has run on an item.
BatchOf(w) ==
    /\ wPc[w] \in {"write", "flush"}
    /\ Len(wItem[w]) = 1

\* C27: every ItemSkipped and every CheckFailed of a task's batch has a
\* description that begins with the base category of the task's state and
\* `::`.
C27_BaseCategoryPrefix ==
    \A w \in Workers :
        BatchOf(w) =>
            \A i \in 1..Len(wResults[w]) :
                (isItemSkipped(wResults[w][i]) \/ isCheckFailed(wResults[w][i]))
                => /\ Len(wResults[w][i].check_description) >= 2
                   /\ wResults[w][i].check_description[1]
                        = BaseCategory(wItem[w][1].state)
                   /\ wResults[w][i].check_description[2] = Sep

\* ------------------------------------------------------------------ C28
\* The item passes the preconditions of the checks.
PassesPreconditions(item) ==
    /\ item.exists
    /\ item.pending = "no"
    /\ ~item.is_dark
    /\ item.item_last_modified < item.max_last_modified

\* The checks of a merged release.
MergedChecks ==
    {<<"MergedItem", Sep, name>> :
        name \in {"test item", "index is absent", "images are absent",
                  "derivatives are absent", "mb_metadata is absent"}}

\* C28: after the preconditions, a task of state active or empty runs the
\* active checks; a task of state possibly_deleted or merged runs none of
\* them, and the batch of a merged one has the five MergedItem checks and no
\* release-url check.
C28_ChecksByState ==
    \A w \in Workers :
        (BatchOf(w) /\ PassesPreconditions(wItem[w][1])) =>
            LET state == wItem[w][1].state
                active == \E i \in 1..Len(wYielded[w]) :
                            InStage(wYielded[w][i],
                                    {"Metadata", "Files", "CAAIndex"})
                descriptions == {wResults[w][i].check_description :
                                    i \in 1..Len(wResults[w])}
            IN /\ state \in {"active", "empty"} => active
               /\ state \in {"possibly_deleted", "merged"} => ~active
               /\ state = "merged" =>
                    /\ MergedChecks \subseteq descriptions
                    /\ \A d \in descriptions :
                          d[Len(d)] # "release url correct"

\* ------------------------------------------------------------------ C29
\* C29: for a release with the covers 1 and 2 whose index has the two
\* images with the fields of their covers, `Image::order` passes exactly if
\* the index has them in the order of the catalog, and no other check of
\* the index fails: with the images in the order 2, 1, `Image::order` is the
\* only failed check of the index stage.
C29_ImageOrder ==
    \A w \in Workers :
        (BatchOf(w) /\ wItem[w][1] \in {CoverItem(<<1, 2>>, <<1, 2>>),
                                        CoverItem(<<1, 2>>, <<2, 1>>)}) =>
            LET order == CheckPassed(wTask[w], ImageCheck("order"))
                wrong == CheckFailed(wTask[w], ImageCheck("order"))
                in_order == wItem[w][1] = CoverItem(<<1, 2>>, <<1, 2>>)
                batch == wResults[w]
            IN /\ (\E i \in 1..Len(batch) : batch[i] = order) <=> in_order
               /\ (\E i \in 1..Len(batch) : batch[i] = wrong) <=> ~in_order
               /\ \A i \in 1..Len(batch) :
                     (isCheckFailed(batch[i]) /\ InStage(batch[i], {"CAAIndex"}))
                     => batch[i] = wrong

\* ------------------------------------------------------------------ C30
\* The original files whose whole name is mbid-<MBID>-<id>.<extension>.
WholeNameImages(image_files, cover_id) ==
    {i \in 1..Len(image_files) :
        /\ startswith(image_files[i].name, ImageFileName(cover_id, <<".">>))
        /\ Len(image_files[i].name) = Len(ImageFileName(cover_id, <<".">>)) + 1
        /\ image_files[i].source = "original"}

\* C30: for a release with one cover, `Files::image id is unique` passes
\* exactly if one original file has the whole name
\* mbid-<MBID>-<id>.<extension>; a file mbid-<MBID>-<id>.jpg_meta.txt is
\* not counted.
C30_ImageIdUnique ==
    \A w \in Workers :
        (BatchOf(w) /\ Len(wItem[w][1].covers) = 1
                    /\ PassesPreconditions(wItem[w][1])
                    /\ ~had_exception[w]) =>
            LET unique == <<"Files", Sep, "image id is unique">>
                one == Cardinality(WholeNameImages(wItem[w][1].image_files,
                                        wItem[w][1].covers[1].id)) = 1
            IN \E i \in 1..Len(wResults[w]) :
                  wResults[w][i] = _simple_check(wTask[w], unique, one)

\* ------------------------------------------------------------------ C31
\* C31: the preconditions run in the order exists, pending tasks, darkened,
\* modified, and the first that fails ends the task.  A worker goes from
\* the start of the task straight to the report exactly for an item with
\* empty metadata, with the batch of the one failed `Item::exists`, and
\* awaits the pending-tasks query only for an item with metadata, after the
\* passed `Item::exists`.  When the query says there are pending tasks the
\* batch ends there with ItemSkipped `Item::has pending tasks`, also for a
\* dark item; a dark item without pending tasks ends with `Item::darkened`,
\* also when it is outdated as well.
C31_PreconditionOrder ==
    [][\A w \in Workers :
        LET exists == <<"Item", Sep, "exists">>
            item == wItem'[w][1]
        IN /\ (wPc[w] = "mkdir" /\ wPc'[w] = "write")
                => /\ ~item.exists
                   /\ wResults'[w] = <<CheckFailed(wTask[w], exists)>>
           /\ (wPc[w] # "pending" /\ wPc'[w] = "pending")
                => /\ wPc[w] = "mkdir"
                   /\ item.exists
                   /\ wYielded'[w] = <<CheckPassed(wTask[w], exists)>>
           /\ (wPc[w] = "pending" /\ wPc'[w] = "write"
                                  /\ item.pending = "yes")
                => wResults'[w]
                     = <<CheckPassed(wTask[w], exists),
                         ItemSkipped(wTask[w],
                                     <<"Item", Sep, "has pending tasks">>)>>
           /\ (wPc[w] = "pending" /\ wPc'[w] = "write"
                                  /\ item.pending = "no" /\ item.is_dark)
                => wResults'[w]
                     = <<CheckPassed(wTask[w], exists),
                         ItemSkipped(wTask[w], <<"Item", Sep, "darkened">>)>>
      ]_vars

\* C31 witness: a dark item with pending tasks has been skipped for its
\* pending tasks, and the batch is reported.
C31_Witness ==
    \E w \in Workers :
        /\ wPc[w] = "flush"
        /\ wItem[w] = <<[GoodItem EXCEPT !.pending = "yes", !.is_dark = TRUE]>>
        /\ Len(wResults[w]) = 2
        /\ isItemSkipped(wResults[w][2])

\* ------------------------------------------------------------------ C32
\* The checks of worker w's task have reached the index stage of a release
\* without covers.
AtIndexStage(w) ==
    /\ BatchOf(w)
    /\ PassesPreconditions(wItem[w][1])
    /\ wItem[w][1].has_metadata /\ wItem[w][1].has_release_name
    /\ wItem[w][1].covers = <<>>

\* The results of the index stage in worker w's batch.
IndexResults(w) ==
    {i \in 1..Len(wResults[w]) : InStage(wResults[w][i], {"CAAIndex"})}

\* C32: the index stage stops at its first failing gate.  Without index
\* bytes the failed `CAAIndex::is present` is the only result of the stage;
\* with bytes that do not parse as JSON, or whose root is not an object,
\* the stage yields the passed `is present` and the failed `is well-formed`
\* and nothing else, and the task does not end in an InternalError.
C32_IndexGates ==
    \A w \in Workers :
        AtIndexStage(w) =>
            LET index == wItem[w][1].index
                present == <<"CAAIndex", Sep, "is present">>
                wellformed == <<"CAAIndex", Sep, "is well-formed">>
                stage == {wResults[w][i] : i \in IndexResults(w)}
            IN /\ ~index.present
                    => stage = {CheckFailed(wTask[w], present)}
               /\ (index.present
                    /\ (~index.wellformed \/ index.root # "object"))
                    => /\ ~had_exception[w]
                       /\ stage = {CheckPassed(wTask[w], present),
                                   CheckFailed(wTask[w], wellformed)}

\* ------------------------------------------------------------------ C33
\* The file-existence checks of a release with at most one cover, as the
\* pairs of a check name and the file name it looks for.
ExistenceChecks(item) ==
    {<<ExpectedFiles[i], " exists">> : i \in 1..Len(ExpectedFiles)}
    \cup (IF Len(item.covers) = 1
          THEN {<<"original image exists">>}
               \cup {<<ThumbSizes[t], "px thumbnail exists">> :
                        t \in 1..Len(ThumbSizes)}
          ELSE {})

\* Whether the item lists the file the check looks for.
ListsFileOf(item, check) ==
    LET names == [i \in 1..Len(item.image_files) |->
                     item.image_files[i].name]
        id == item.covers[1].id
    IN CASE check = <<"original image exists">>
              -> InSeq(ImageFileName(id, <<".", item.covers[1].extension>>),
                       names)
         [] Len(check) = 2 /\ check[2] = "px thumbnail exists"
              -> InSeq(ImageFileName(id, <<"_thumb", check[1], ".jpg">>),
                       names)
         [] OTHER -> InSeq(check[1], item.files)

\* C33: each file-existence check of a batch passes if and only if the file
\* it looks for is in the file list of the item, and fails if and only if
\* the file is absent.
C33_FileExistence ==
    \A w \in Workers :
        (BatchOf(w) /\ ~had_exception[w] /\ Len(wItem[w][1].covers) <= 1) =>
            \A check \in ExistenceChecks(wItem[w][1]) :
                LET ok == CheckPassed(wTask[w], <<"Files", Sep>> \o check)
                    missing == CheckFailed(wTask[w], <<"Files", Sep>> \o check)
                    batch == wResults[w]
                    listed == ListsFileOf(wItem[w][1], check)
                IN \A i \in 1..Len(batch) :
                      /\ batch[i] = ok => listed
                      /\ batch[i] = missing => ~listed

\* ------------------------------------------------------------------ C34
\* How many images of the index of worker w's item have the id of its one
\* cover.
Occurrences(w) ==
    Cardinality({i \in 1..Len(wItem[w][1].index.images) :
                    wItem[w][1].index.images[i].id = wItem[w][1].covers[1].id})

\* C34: for the cover of a release with one cover, `Image::missing image`
\* fails if and only if no image of the index has the id of the cover (it
\* passes when the id occurs, once or more), and `Image::image id is
\* unique` fails if and only if more than one image has it.
C34_MissingAndUnique ==
    \A w \in Workers :
        (BatchOf(w) /\ ~had_exception[w] /\ Len(wItem[w][1].covers) = 1) =>
            \A i \in 1..Len(wResults[w]) :
                LET res == wResults[w][i]
                    absent == ImageCheck("missing image")
                    unique == ImageCheck("image id is unique")
                IN /\ res.check_description = absent
                        => res = _simple_check(wTask[w], absent,
                                               Occurrences(w) >= 1)
                   /\ res.check_description = unique
                        => res = _simple_check(wTask[w], unique,
                                               Occurrences(w) <= 1)

\* ------------------------------------------------------------------ C35
\* The places of the ItemSkipped results in a batch.
SkippedAt(batch) ==
    {i \in 1..Len(batch) : isItemSkipped(batch[i])}

\* C35: every batch handed to the aggregator has one of two shapes.  It is
\* one ItemSkipped of category InternalError, or it is the whole sequence of
\* the results the checks yielded in a run that did not raise; a batch of
\* the second shape holds at most one ItemSkipped, and holds it last.
C35_BatchShapes ==
    \A w \in Workers :
        BatchOf(w) =>
            LET batch == wResults[w]
            IN \/ /\ had_exception[w]
                  /\ Len(batch) = 1
                  /\ isItemSkipped(batch[1])
                  /\ InStage(batch[1], {"InternalError"})
               \/ /\ ~had_exception[w]
                  /\ batch = wYielded[w]
                  /\ \A i \in 1..Len(batch) :
                        ~InStage(batch[i], {"InternalError"})
                  /\ Cardinality(SkippedAt(batch)) <= 1
                  /\ SkippedAt(batch) \subseteq {Len(batch)}

\* C35 witness: after a batch of the first shape has been counted, a worker
\* gives the aggregator a batch of several results that ends with its only
\* ItemSkipped.
C35_Witness ==
    \E w \in Workers :
        /\ BatchOf(w) /\ ~had_exception[w] /\ Len(wResults[w]) > 1
        /\ SkippedAt(wResults[w]) = {Len(wResults[w])}
        /\ wItem[w][1].is_dark
        /\ internal_error_counter > 0

\* ------------------------------------------------------------------ C36
\* How often the queuer has enqueued a task, and how many tasks have fired
\* their transition to success, failed or skipped.
Enqueued ==
    SumOver([t \in Tasks |-> hist[t].enq], MaxOutageTasks)

Finished ==
    success + failed + skipped

\* C36: the progress counters are consistent.  queued is the number of
\* tasks in the work queue and is never negative; the tasks in progress,
\* those started less those finished, are never fewer than none and never
\* more than the workers; and no more tasks have finished than started,
\* nor more started than were enqueued.
C36_ProgressCounters ==
    /\ queued = Len(task_q)
    /\ queued >= 0
    /\ pending_count - Finished >= 0
    /\ pending_count - Finished <= concurrency
    /\ Finished <= pending_count
    /\ pending_count <= Enqueued
    /\ Enqueued = queued + pending_count

\* C36 witness: more tasks than there are workers have been started, some
\* have finished, every worker holds a task and tasks are still queued.
C36_Witness ==
    /\ pending_count > concurrency
    /\ Finished > 0
    /\ pending_count - Finished = concurrency
    /\ queued > 0

\* ------------------------------------------------------------------ C37
RECURSIVE Occupancy(_)
\* The sum of the stage counters of the stages in S.
Occupancy(S) ==
    IF S = {} THEN 0
    ELSE LET s == CHOOSE x \in S : TRUE
         IN stage_count[s] + Occupancy(S \ {s})

\* The coordinator's wait for the queue to drain has returned.
Drained ==
    coordPc \in {"cancelled", "reported", "reports_failed"}

\* C37: no stage counter is ever negative, the stage counters together
\* never count more than the workers of the run, and once the queue has
\* drained every stage counter is zero.
C37_StageCounters ==
    /\ \A s \in CheckStage : stage_count[s] >= 0
    /\ Occupancy(CheckStage) <= concurrency
    /\ Drained => \A s \in CheckStage : stage_count[s] = 0

\* C37 witness: the queue has drained in a run of several workers in which
\* more tasks than there are workers went through both stages.
C37_Witness ==
    /\ Drained
    /\ concurrency > 1
    /\ pending_count > concurrency
    /\ \A s \in CheckStage : stage_count[s] = 0

\* ------------------------------------------------------------------ C38
\* C38: a step changes a cache file only when a fetch succeeds in it, and
\* then the file holds the bytes of the answer: ia_metadata.json the body
\* of the metadata answer, a non-empty object without error or an empty
\* value the probe has just confirmed with 404, index.json the body of the
\* answer with the document.  A step in which a fetch raises, be it retried
\* or given up, changes neither file.
C38_CacheWrittenOnSuccess ==
    [][/\ ia_metadata_json' # ia_metadata_json
            => /\ iRaised' = "none"
               /\ metadata_json' = <<json_parse(ia_metadata_json')>>
               /\ \/ /\ iPc = "meta_get" /\ resp \in {"{meta}", "{dark}"}
                     /\ ia_metadata_json' = resp
                  \/ /\ iPc = "probe" /\ resp = "404"
                     /\ fetched_raw \in {"{}", "null"}
                     /\ ia_metadata_json' = fetched_raw
       /\ index_json' # index_json
            => /\ iRaised' = "none"
               /\ iPc = "index_get" /\ resp = "index_bytes"
               /\ index_json' = resp
       /\ ((iRaised = "none" /\ iRaised' # "none")
            \/ (iPc' = iPc /\ tries' = tries + 1)
            \/ (iPc' = iPc /\ probe_tries' = probe_tries + 1))
            => /\ ia_metadata_json' = ia_metadata_json
               /\ index_json' = index_json
      ]_vars

\* C38 witness: over an empty cache directory the metadata was fetched and
\* written, and the fetch of index.json has given up and left no file.
C38_Witness ==
    /\ iPc = "done"
    /\ meta_cache_before = "absent"
    /\ ia_metadata_json = "{meta}"
    /\ "_fetch_index" \in gaveup
    /\ index_json = "absent"

\* ------------------------------------------------------------------ C39
\* A number of requests to the details endpoint that the call of metadata()
\* has issued at the least: the max_tries requests of a call of _is_404
\* that has given up, and the requests of the call of _is_404 under way.
ProbesAtLeast ==
    (IF "_is_404" \in gaveup THEN max_tries ELSE 0)
    + (IF iPc = "probe" THEN probe_tries ELSE 0)

\* C39: one call of metadata() issues at most max_tries requests to the
\* metadata endpoint and at most max_tries requests to the details
\* endpoint in all.
C39_RequestBudget ==
    /\ iPc \in {"meta_get", "probe"} => tries <= max_tries
    /\ ProbesAtLeast <= max_tries

\* ------------------------------------------------------------------ C40
\* The input file holds the meta record and nothing else.
OnlyMetaRecord ==
    numTasks = 0 /\ first_state = "meta"

\* C40: a run whose input holds only the meta record ends normally.  The
\* queuer finishes without having enqueued a task, the wait for the queue
\* returns as soon as it is reached, the workers are cancelled having
\* started nothing, and the table generation and the report writers end
\* without an error, every report written.
C40_EmptyRunEndsNormally ==
    OnlyMetaRecord =>
        /\ qPc # "failed" /\ coordPc # "crashed"
        /\ task_q = <<>> /\ pending_count = 0
        /\ coordPc = "join" => join_returns
        /\ coordPc \in {"cancelled", "reported", "reports_failed"}
              => \A w \in Workers : wPc[w] \in {"absent", "cancelled"}
        /\ coordPc # "reports_failed"
        /\ coordPc = "reported"
              => reports = LogFiles \cup {"bad_items.csv"} \cup TableFiles

====
